---- MODULE Spec2Model ----
(***************************************************************************)
(* Task-graph synchronisation engine of task-master-issues:                *)
(*   - the resilience layer of src/src/main.ts (categorizeError,           *)
(*     executeWithRetry),                                                  *)
(*   - the blocked-state resolver of src/src/issue-hierarchy.ts            *)
(*     (isIssueBlocked, updateBlockedStatus, resolveDependencies) and its  *)
(*     webhook entry point in src/src/dependency-watcher.ts,               *)
(*   - the sync engine of src/create-issues.ts (createOrGetIssue, main).   *)
(* The remote issue tracker is the environment: its calls may fail.        *)
(***************************************************************************)
EXTENDS Integers, Sequences, FiniteSets, TLC

VARIABLES
    retry,      \* the activation of executeWithRetry
    remote,     \* the tracker: issue number -> issue
    last,       \* the most recent resolver call and what it observed
    tasks,      \* the task graph read from tasks.json
    run,        \* the activation of the sync engine's main()
    subIssueApi,  \* does octokit.issues.createSubIssue exist?
    artifact,     \* the artifact download in progress or finished
    scan,         \* the periodic scan of the dependency watcher
    action        \* the operation of TaskmasterAction in progress

vars == <<retry, remote, last, tasks, run, subIssueApi, artifact, scan, action>>

None == "none"

\* No operation of TaskmasterAction is in progress.
NoAction == [op |-> "none"]

\* `last` when no resolver activation has just finished.
Idle ==
    [op |-> "idle", n |-> 0, ret |-> FALSE, failed |-> FALSE, fetched |-> << >>,
     listed |-> FALSE, updates |-> << >>]

\* `run` when main() of the sync engine has never been started.
RunIdle ==
    [n |-> 0, pc |-> "idle", i |-> 1, cache |-> << >>, idToIssue |-> << >>,
     pass1 |-> << >>, pass2 |-> << >>, updated |-> << >>, blocked |-> << >>, subLinks |-> << >>,
     dirty |-> FALSE, afterClean |-> FALSE, threw |-> "none"]

\* No payload: downloadFromArtifactUrl has returned nothing.
NoPayload == [sha |-> None, kind |-> None]

NoOptions == [validateChecksum |-> TRUE, expectedChecksum |-> None, maxRetries |-> 0]

\* `artifact` when downloadFromArtifactUrl has never been called.
NoDownload ==
    [op |-> "none", options |-> NoOptions, responses |-> << >>,
     returned |-> NoPayload]

\* `scan` when scanAllIssuesForBlockedStatus has never been called.
NoItem ==
    [pc |-> "none", stale |-> FALSE, isBlocked |-> FALSE, hadLabel |-> FALSE,
     write |-> "none"]

NoScan ==
    [pc |-> "idle", listing |-> << >>, i |-> 1, items |-> << >>,
     finished |-> << >>, batches |-> << >>, delays |-> << >>,
     closure |-> [pc |-> "idle", c |-> 0, todo |-> << >>, item |-> NoItem,
                  handled |-> {}],
     failures |-> 0, failedOn |-> {}]

(***************************************************************************)
(* Bounds of the model.                                                    *)
(***************************************************************************)
MaxRetriesArg == 3      \* executeWithRetry is called with maxRetries in 0..MaxRetriesArg
MaxDeps == 2            \* length of a dependency list
MaxRuns == 2            \* successive runs of the sync engine

(***************************************************************************)
(* Resilience layer: errors.                                               *)
(* An error object has a status, a code, a message and headers.  Messages  *)
(* are named; MsgIncludes gives the substrings categorizeError looks for   *)
(* (String.includes is case sensitive: "Validation failed" does not        *)
(* include "validation").                                                  *)
(***************************************************************************)
NoStatus == 0

MsgIncludes(msg, sub) ==
    CASE msg = "API rate limit exceeded" -> sub \in {"rate limit", "API rate limit"}
      [] msg = "You have exceeded a secondary rate limit" ->
             sub \in {"rate limit", "secondary rate limit"}
      [] msg = "Field validation error" -> sub = "validation"
      [] msg = "Checksum validation failed" -> sub = "validation"
      [] msg = "Invalid artifact: abc123" -> sub = "Invalid artifact"
      [] msg = "Invalid artifact: invalid-artifact-id" -> sub = "Invalid artifact"
      [] msg = "Invalid artifact: validation-report" ->
             sub \in {"Invalid artifact", "validation"}
      [] msg = "taskmaster-task-graph-1" -> sub = "taskmaster-task-graph-"
      [] OTHER -> FALSE

\* [status, code, message, retryAfter (seconds, -1: no header),
\*  resetIn (ms from now to x-ratelimit-reset, -1: no header)]
Err(status, code, message, retryAfter, resetIn) ==
    [status |-> status, code |-> code, message |-> message,
     retryAfter |-> retryAfter, resetIn |-> resetIn]

ErrorTemplates ==
    { Err(403, None, "API rate limit exceeded", 60, -1),
      Err(403, None, "You have exceeded a secondary rate limit", -1, 30000),
      Err(403, None, "API rate limit exceeded", -1, -1),
      Err(NoStatus, "ECONNRESET", "Connection reset", -1, -1),
      Err(NoStatus, "ENOTFOUND", "getaddrinfo ENOTFOUND", -1, -1),
      Err(NoStatus, "ETIMEDOUT", "Connection timed out", -1, -1),
      Err(500, None, "Internal server error", -1, -1),
      Err(422, None, "Validation failed", -1, -1),
      Err(NoStatus, None, "Field validation error", -1, -1),
      Err(NoStatus, None, "Checksum validation failed", -1, -1),
      Err(401, None, "Unauthorized", -1, -1),
      Err(403, None, "Forbidden", -1, -1),
      Err(NoStatus, None, "Invalid artifact: abc123", -1, -1),
      Err(NoStatus, None, "Temporary failure", -1, -1) }

Min(a, b) == IF a <= b THEN a ELSE b
Max(a, b) == IF a >= b THEN a ELSE b

RECURSIVE Pow2(_)
Pow2(n) == IF n = 0 THEN 1 ELSE 2 * Pow2(n - 1)

\* this.retryQueue is declared empty and never pushed to.
retryQueueLength == 0

calculateRateLimitDelay(error) ==
    IF error.retryAfter # -1
    THEN error.retryAfter * 1000
    ELSE IF error.resetIn # -1
         THEN Max(1000, error.resetIn)
         ELSE Min(300000, 1000 * Pow2(retryQueueLength))

Category(type, retryable, retryDelay, maxRetries) ==
    [type |-> type, retryable |-> retryable, retryDelay |-> retryDelay,
     maxRetries |-> maxRetries]

categorizeError_validationRetryable(error) ==
    IF /\ error.status = 403
       /\ \/ MsgIncludes(error.message, "rate limit")
          \/ MsgIncludes(error.message, "API rate limit")
          \/ MsgIncludes(error.message, "secondary rate limit")
    THEN Category("rate_limit", TRUE, calculateRateLimitDelay(error), 10)
    ELSE IF \/ error.code \in {"ECONNRESET", "ENOTFOUND", "ETIMEDOUT"}
            \/ error.status >= 500
    THEN Category("network", TRUE, 1000, 5)
    ELSE IF error.status = 422 \/ MsgIncludes(error.message, "validation")
    THEN Category("validation", TRUE, 1000, 3)
    ELSE IF error.status = 401 \/ error.status = 403
    THEN Category("authentication", FALSE, 0, 0)
    ELSE Category("unknown", TRUE, 2000, 3)

categorizeError_noServerErrors(error) ==
    IF /\ error.status = 403
       /\ \/ MsgIncludes(error.message, "rate limit")
          \/ MsgIncludes(error.message, "API rate limit")
          \/ MsgIncludes(error.message, "secondary rate limit")
    THEN Category("rate_limit", TRUE, calculateRateLimitDelay(error), 10)
    ELSE IF error.code \in {"ECONNRESET", "ENOTFOUND", "ETIMEDOUT"}
    THEN Category("network", TRUE, 1000, 5)
    ELSE IF error.status = 422 \/ MsgIncludes(error.message, "validation")
    THEN Category("validation", FALSE, 0, 0)
    ELSE IF error.status = 401 \/ error.status = 403
    THEN Category("authentication", FALSE, 0, 0)
    ELSE Category("unknown", TRUE, 2000, 3)

categorizeError(error) ==
    IF /\ error.status = 403
       /\ \/ MsgIncludes(error.message, "rate limit")
          \/ MsgIncludes(error.message, "API rate limit")
          \/ MsgIncludes(error.message, "secondary rate limit")
    THEN Category("rate_limit", TRUE, calculateRateLimitDelay(error), 10)
    ELSE IF \/ error.code \in {"ECONNRESET", "ENOTFOUND", "ETIMEDOUT"}
            \/ error.status >= 500
    THEN Category("network", TRUE, 1000, 5)
    ELSE IF error.status = 422 \/ MsgIncludes(error.message, "validation")
    THEN Category("validation", FALSE, 0, 0)
    ELSE IF error.status = 401 \/ error.status = 403
    THEN Category("authentication", FALSE, 0, 0)
    ELSE Category("unknown", TRUE, 2000, 3)

(***************************************************************************)
(* Resilience layer: executeWithRetry.                                     *)
(* retry.raised is the history of the error objects the operation threw;   *)
(* an error object is identified by the attempt that threw it.             *)
(***************************************************************************)
\* let lastError: any;   (undefined)
NoError == [tpl |-> Err(NoStatus, None, "", -1, -1), at |-> -1]

RetryIdle ==
    [pc |-> "idle", maxRetries |-> 0, attempt |-> 0, lastError |-> NoError,
     calls |-> 0, sleeps |-> << >>, raised |-> << >>, result |-> -1,
     thrown |-> NoError]

\* catch (error) { lastError = error; ... }
catchAssign_keepFirst(lastError, error) ==
    IF lastError = NoError THEN error ELSE lastError

catchAssign(lastError, error) == error

givesUp_oneLate(errorCategory, attempt, maxRetries) ==
    ~errorCategory.retryable \/ attempt > maxRetries

givesUp_oneEarly(errorCategory, attempt, maxRetries) ==
    ~errorCategory.retryable \/ attempt + 1 >= maxRetries

\* if (!errorCategory.retryable || attempt >= maxRetries) break;
givesUp(errorCategory, attempt, maxRetries) ==
    ~errorCategory.retryable \/ attempt >= maxRetries

executeWithRetry(maxRetries) ==
    /\ retry.pc \in {"idle", "returned", "thrown"}
    /\ retry' = [RetryIdle EXCEPT !.pc = "loop", !.maxRetries = maxRetries]

\* One iteration of the loop whose operation() resolves; retry.result names
\* the attempt whose value is returned.
RetryAttemptOk ==
    /\ retry.pc = "loop"
    /\ retry' = [retry EXCEPT !.calls = @ + 1,
                              !.result = retry.attempt,
                              !.pc = "returned"]

\* One iteration of the loop whose operation() throws: the catch block, the
\* sleep and attempt++, or the break followed by throw lastError.
RetryAttemptFail(tpl) ==
    /\ retry.pc = "loop"
    /\ LET error == [tpl |-> tpl, at |-> retry.attempt]
           lastError == catchAssign(retry.lastError, error)
           errorCategory == categorizeError(tpl)
       IN  IF givesUp(errorCategory, retry.attempt, retry.maxRetries)
           THEN retry' = [retry EXCEPT !.calls = @ + 1,
                                       !.raised = Append(@, error),
                                       !.lastError = lastError,
                                       !.thrown = lastError,
                                       !.pc = "thrown"]
           ELSE retry' = [retry EXCEPT !.calls = @ + 1,
                                       !.raised = Append(@, error),
                                       !.lastError = lastError,
                                       !.sleeps = Append(@, errorCategory.retryDelay),
                                       !.attempt = @ + 1]

RetryNext ==
    /\ \/ \E m \in 0..MaxRetriesArg : executeWithRetry(m)
       \/ RetryAttemptOk
       \/ \E tpl \in ErrorTemplates : RetryAttemptFail(tpl)
    /\ UNCHANGED <<remote, last, tasks, run, subIssueApi, artifact, scan, action>>

RetryInit ==
    /\ retry = RetryIdle
    /\ remote = << >>
    /\ last = Idle
    /\ tasks = << >>
    /\ run = RunIdle
    /\ subIssueApi = FALSE
    /\ artifact = NoDownload
    /\ action = NoAction
    /\ scan = NoScan

SpecRetry == RetryInit /\ [][RetryNext]_vars

\* One iteration of the loop, however it ends.
RetryAttempt ==
    /\ \/ RetryAttemptOk
       \/ \E tpl \in ErrorTemplates : RetryAttemptFail(tpl)
    /\ UNCHANGED <<remote, last, tasks, run, subIssueApi, artifact, scan, action>>

\* The awaited operation settles and a sleep ends: a started loop goes on.
SpecRetryFair == SpecRetry /\ WF_vars(RetryAttempt)

(***************************************************************************)
(* Artifact download: downloadFromArtifactUrl (SpecDownload).              *)
(* The downloaded text is a payload [sha, kind]: sha names its SHA-256     *)
(* (different texts, different names), kind says what JSON.parse and       *)
(* validateTaskGraphStructure make of it.  Signature validation is off     *)
(* (validateSignature = false, its default).                               *)
(***************************************************************************)
Checksums == {"h1", "h2"}

Payloads == [sha : Checksums, kind : {"graph", "badjson", "badgraph"}]

\* fetch(): rejects, resolves with !response.ok, or resolves with a text
Responses ==
    { [fetch |-> "rejected", data |-> NoPayload],
      [fetch |-> "notOk", data |-> NoPayload] }
    \cup { [fetch |-> "ok", data |-> d] : d \in Payloads }

\* options.expectedChecksum: undefined, the empty string, or a digest
DownloadOptions ==
    [validateChecksum : BOOLEAN,
     expectedChecksum : {None, ""} \cup Checksums,
     maxRetries : 0..MaxRetriesArg]

calculateSHA256(data) == data.sha

\* JavaScript truthiness of a string option
Truthy(str) == str # None /\ str # ""

NoTpl == Err(NoStatus, None, "", -1, -1)

\* if (validateChecksum && expectedChecksum)
checksumChecked_unlessRetrying(options) ==
    options.validateChecksum /\ Truthy(options.expectedChecksum) /\ retry.attempt = 0

checksumChecked(options) ==
    options.validateChecksum /\ Truthy(options.expectedChecksum)

\* The operation given to executeWithRetry: the error it throws (NoTpl when
\* it returns the task graph).
downloadOperation(options, response) ==
    IF response.fetch = "rejected"
    THEN Err(NoStatus, None, "fetch failed", -1, -1)
    ELSE IF response.fetch = "notOk"
    THEN Err(NoStatus, None, "Failed to download artifact: 404 Not Found", -1, -1)
    ELSE IF /\ checksumChecked(options)
            /\ calculateSHA256(response.data) # options.expectedChecksum
    THEN Err(NoStatus, None, "Checksum validation failed", -1, -1)
    ELSE IF response.data.kind = "badjson"
    THEN Err(NoStatus, None, "Failed to parse artifact JSON: Unexpected token", -1, -1)
    ELSE IF response.data.kind = "badgraph"
    THEN Err(NoStatus, None, "Invalid task graph structure: missing master or metadata", -1, -1)
    ELSE NoTpl

downloadFromArtifactUrl(options) ==
    /\ executeWithRetry(options.maxRetries)
    /\ artifact' = [NoDownload EXCEPT !.op = "download", !.options = options]
    /\ UNCHANGED <<remote, last, tasks, run, subIssueApi, scan, action>>

\* One attempt: fetch, the validations, the parse; the loop of
\* executeWithRetry takes the result or the error.
DownloadAttempt(response) ==
    /\ artifact.op = "download"
    /\ LET error == downloadOperation(artifact.options, response)
       IN  IF error = NoTpl
           THEN /\ RetryAttemptOk
                /\ artifact' = [artifact EXCEPT !.responses = Append(@, response),
                                                !.returned = response.data]
           ELSE /\ RetryAttemptFail(error)
                /\ artifact' = [artifact EXCEPT !.responses = Append(@, response)]
    /\ UNCHANGED <<remote, last, tasks, run, subIssueApi, scan, action>>

DownloadInit ==
    /\ retry = RetryIdle
    /\ artifact = NoDownload
    /\ action = NoAction
    /\ remote = << >>
    /\ last = Idle
    /\ tasks = << >>
    /\ run = RunIdle
    /\ subIssueApi = FALSE
    /\ scan = NoScan

DownloadNext ==
    \/ \E options \in DownloadOptions : downloadFromArtifactUrl(options)
    \/ \E response \in Responses : DownloadAttempt(response)

SpecDownload == DownloadInit /\ [][DownloadNext]_vars

(***************************************************************************)
(* The remote tracker.                                                     *)
(* An issue is [title, body, state, labels].  A body is kept as the parts  *)
(* the program reads and writes: the YAML front-matter (fm: the body       *)
(* starts with one; id, dependencies: its keys), the "## Dependencies"     *)
(* section, the "- Required By:" block and the unique marker.  A section   *)
(* is [present, items]; an item <<closed, number>> is a checkbox line      *)
(* "- [x] #number" (closed) or "- [ ] #number".                            *)
(***************************************************************************)
Issues == {1, 2, 3}     \* issue numbers of the resolver model

NoSection == [present |-> FALSE, items |-> << >>]
EmptySection == [present |-> TRUE, items |-> << >>]

\* issue.data.body is null or has no front-matter
NullBody ==
    [fm |-> FALSE, id |-> 0, dependencies |-> << >>, depSection |-> NoSection,
     reqSection |-> NoSection, marker |-> FALSE]

Issue(title, body, state, labels) ==
    [title |-> title, body |-> body, state |-> state, labels |-> labels]

\* The metadata parseYAMLFrontMatter returns: {} when the body does not start
\* with a front-matter block.
parseYAMLFrontMatter(issueBody) ==
    IF issueBody.fm
    THEN [id |-> issueBody.id, dependencies |-> issueBody.dependencies]
    ELSE [id |-> 0, dependencies |-> << >>]

(***************************************************************************)
(* Remote calls of one handler activation are numbered 1, 2, ... in the    *)
(* order they are made; F is the set of the calls that fail (the tracker   *)
(* is unreliable).  A get of an issue that does not exist fails (404).     *)
(***************************************************************************)
MaxFailures == 1        \* at most this many remote calls of one activation fail

CallOk(k, F) == k \notin F
GetOk(rem, n, k, F) == n \in DOMAIN rem /\ CallOk(k, F)

SeqToSet(s) == { s[i] : i \in 1..Len(s) }

\* (a loop that decides on the first dependency alone)
checkDependencies_firstOnly(rem, deps, i, k, F, fetched) ==
    IF i > Len(deps)
    THEN [ret |-> FALSE, failed |-> FALSE, fetched |-> fetched, k |-> k]
    ELSE IF ~GetOk(rem, deps[i], k, F)
         THEN [ret |-> FALSE, failed |-> TRUE,
               fetched |-> Append(fetched, deps[i]), k |-> k + 1]
         ELSE [ret |-> rem[deps[i]].state = "open", failed |-> FALSE,
               fetched |-> Append(fetched, deps[i]), k |-> k + 1]

\* (a loop that fetches every dependency before it decides)
checkDependencies_fetchAll(rem, deps, i, k, F, fetched) ==
    [ret |-> \E j \in i..Len(deps) :
                deps[j] \in DOMAIN rem /\ rem[deps[j]].state = "open",
     failed |-> FALSE,
     fetched |-> fetched \o SubSeq(deps, i, Len(deps)),
     k |-> k + Len(deps) - i + 1]

\* for (const depId of dependencies) { get depId; if open return true }
\* k is the number of the next remote call.
RECURSIVE checkDependencies(_, _, _, _, _, _)
checkDependencies(rem, deps, i, k, F, fetched) ==
    IF i > Len(deps)
    THEN [ret |-> FALSE, failed |-> FALSE, fetched |-> fetched, k |-> k]
    ELSE IF ~GetOk(rem, deps[i], k, F)
         THEN [ret |-> FALSE, failed |-> TRUE,
               fetched |-> Append(fetched, deps[i]), k |-> k + 1]
         ELSE IF rem[deps[i]].state = "open"
              THEN [ret |-> TRUE, failed |-> FALSE,
                    fetched |-> Append(fetched, deps[i]), k |-> k + 1]
              ELSE checkDependencies(rem, deps, i + 1, k + 1, F,
                                     Append(fetched, deps[i]))

\* The value the catch block of isIssueBlocked returns.
blockedOnError_failClosed == TRUE

blockedOnError == FALSE

\* fetched: the issues whose get was called, in order, the issue's own get
\* first; failed: some get threw and the catch block returned.
isIssueBlocked(rem, issueNumber, k, F) ==
    IF ~GetOk(rem, issueNumber, k, F)
    THEN [ret |-> blockedOnError, failed |-> TRUE,
          fetched |-> <<issueNumber>>, k |-> k + 1]
    ELSE LET deps == parseYAMLFrontMatter(rem[issueNumber].body).dependencies
             r == checkDependencies(rem, deps, 1, k + 1, F, <<issueNumber>>)
         IN  IF r.failed THEN [r EXCEPT !.ret = blockedOnError] ELSE r

\* The label write updateBlockedStatus decides on.
labelWrite_alwaysSync(isBlocked, hasBlockedLabel) ==
    IF isBlocked THEN "addLabels"
    ELSE IF hasBlockedLabel THEN "removeLabel" ELSE "none"

labelWrite_neverRemoves(isBlocked, hasBlockedLabel) ==
    IF isBlocked /\ ~hasBlockedLabel THEN "addLabels" ELSE "none"

labelWrite_neverAdds(isBlocked, hasBlockedLabel) ==
    IF ~isBlocked /\ hasBlockedLabel THEN "removeLabel" ELSE "none"

labelWrite(isBlocked, hasBlockedLabel) ==
    IF isBlocked /\ ~hasBlockedLabel THEN "addLabels"
    ELSE IF ~isBlocked /\ hasBlockedLabel THEN "removeLabel"
    ELSE "none"

\* The record of one updateBlockedStatus activation: what it computed, what
\* it fetched, which label write it issued and the tracker afterwards.
updateBlockedStatus(rem, issueNumber, k, F) ==
    LET b == isIssueBlocked(rem, issueNumber, k, F)
        base == [n |-> issueNumber, isBlocked |-> b.ret, failed |-> b.failed,
                 fetched |-> b.fetched, labelsFetched |-> FALSE,
                 hadLabel |-> IF issueNumber \in DOMAIN rem
                              THEN "blocked" \in rem[issueNumber].labels
                              ELSE FALSE,
                 write |-> "none", writeOk |-> FALSE,
                 k |-> b.k + 1, remote |-> rem]
    IN  IF ~GetOk(rem, issueNumber, b.k, F)
        THEN base
        ELSE LET has == "blocked" \in rem[issueNumber].labels
                 w == labelWrite(b.ret, has)
                 ok == CallOk(b.k + 1, F)
                 labels == IF w = "addLabels"
                           THEN rem[issueNumber].labels \cup {"blocked"}
                           ELSE rem[issueNumber].labels \ {"blocked"}
             IN  IF w = "none"
                 THEN [base EXCEPT !.labelsFetched = TRUE]
                 ELSE [base EXCEPT !.labelsFetched = TRUE,
                                   !.write = w,
                                   !.writeOk = ok,
                                   !.k = b.k + 2,
                                   !.remote = IF ok
                                              THEN [rem EXCEPT ![issueNumber].labels = labels]
                                              ELSE rem]

\* per_page of listForRepo
PerPage == 100

Maximum(S) == CHOOSE m \in S : \A x \in S : x <= m

\* listForRepo returns the newest issues first (sort created, desc).
newestFirst(S) ==
    IF S = {} THEN << >>
    ELSE LET hi == Maximum(S)
         IN  SelectSeq([j \in 1..hi |-> hi + 1 - j], LAMBDA n : n \in S)

\* Number of listForRepo calls of getAllIssues: it pages until a page is not full.
pagesOf(rem) == (Cardinality(DOMAIN rem) \div PerPage) + 1

\* What updateBlockedStatus did, without the tracker it left.
UpdateView(u) ==
    [n |-> u.n, isBlocked |-> u.isBlocked, failed |-> u.failed,
     fetched |-> u.fetched, labelsFetched |-> u.labelsFetched,
     hadLabel |-> u.hadLabel, write |-> u.write, writeOk |-> u.writeOk]

\* Does resolveDependencies take the issue for a dependent of the closed one?
dependsOn_any(issue, closedIssueNumber) ==
    parseYAMLFrontMatter(issue.body).dependencies # << >>

dependsOn(issue, closedIssueNumber) ==
    closedIssueNumber \in SeqToSet(parseYAMLFrontMatter(issue.body).dependencies)

\* for (const issue of allIssues) { if depends on closed: updateBlockedStatus }
RECURSIVE resolveLoop(_, _, _, _, _, _, _)
resolveLoop(rem, order, i, closedIssueNumber, k, F, updates) ==
    IF i > Len(order)
    THEN [listed |-> TRUE, updates |-> updates, remote |-> rem, k |-> k]
    ELSE IF dependsOn(rem[order[i]], closedIssueNumber)
         THEN LET u == updateBlockedStatus(rem, order[i], k, F)
              IN  resolveLoop(u.remote, order, i + 1, closedIssueNumber, u.k, F,
                              Append(updates, UpdateView(u)))
         ELSE resolveLoop(rem, order, i + 1, closedIssueNumber, k, F, updates)

\* getAllIssues (a failing page makes it throw; resolveDependencies catches
\* and logs), then the loop over the issues listed.
resolveDependencies(rem, closedIssueNumber, k, F) ==
    IF \E j \in k..(k + pagesOf(rem) - 1) : ~CallOk(j, F)
    THEN [listed |-> FALSE, updates |-> << >>, remote |-> rem, k |-> k + 1]
    ELSE resolveLoop(rem, newestFirst(DOMAIN rem), 1, closedIssueNumber,
                     k + pagesOf(rem), F, << >>)

(***************************************************************************)
(* The resolver called on a repository (SpecResolver).  `last` records the *)
(* activation that has just finished; the caller takes note of it          *)
(* (ResolverReturn) before anything else happens.                          *)
(***************************************************************************)
RECURSIVE FailSets(_, _)
FailSets(m, f) ==
    IF f = 0 THEN {{}}
    ELSE LET S == FailSets(m, f - 1)
         IN  S \cup { s \cup {a} : s \in S, a \in 1..m }

\* The sets of failing calls of an activation that makes at most m calls.
Failures(m) == FailSets(m, MaxFailures)

CallIsIssueBlocked(n) ==
    /\ last = Idle
    /\ \E F \in Failures(1 + MaxDeps) :
         LET r == isIssueBlocked(remote, n, 1, F)
         IN  last' = [Idle EXCEPT !.op = "isIssueBlocked", !.n = n, !.ret = r.ret,
                                  !.failed = r.failed, !.fetched = r.fetched]
    /\ UNCHANGED <<remote, retry, tasks, run, subIssueApi, artifact, scan, action>>

CallUpdateBlockedStatus(n) ==
    /\ last = Idle
    /\ \E F \in Failures(3 + MaxDeps) :
         LET u == updateBlockedStatus(remote, n, 1, F)
         IN  /\ last' = [Idle EXCEPT !.op = "updateBlockedStatus", !.n = n,
                                     !.updates = <<UpdateView(u)>>]
             /\ remote' = u.remote
    /\ UNCHANGED <<retry, tasks, run, subIssueApi, artifact, scan, action>>

\* dependency-watcher: handleIssueClosure(issueNumber), the webhook mode.
handleIssueClosure(issueNumber) ==
    /\ last = Idle
    /\ \E F \in Failures(pagesOf(remote) +
                        Cardinality({ n \in DOMAIN remote : dependsOn(remote[n], issueNumber) })
                            * (3 + MaxDeps)) :
         LET r == resolveDependencies(remote, issueNumber, 1, F)
         IN  /\ last' = [Idle EXCEPT !.op = "handleIssueClosure", !.n = issueNumber,
                                     !.listed = r.listed, !.updates = r.updates]
             /\ remote' = r.remote
    /\ UNCHANGED <<retry, tasks, run, subIssueApi, artifact, scan, action>>

ResolverReturn ==
    /\ last # Idle
    /\ last' = Idle
    /\ UNCHANGED <<remote, retry, tasks, run, subIssueApi, artifact, scan, action>>

\* Somebody closes or reopens an issue on the tracker.
CloseIssue(n) ==
    /\ last = Idle
    /\ n \in DOMAIN remote
    /\ remote[n].state = "open"
    /\ remote' = [remote EXCEPT ![n].state = "closed"]
    /\ UNCHANGED <<last, retry, tasks, run, subIssueApi, artifact, scan, action>>

ReopenIssue(n) ==
    /\ last = Idle
    /\ n \in DOMAIN remote
    /\ remote[n].state = "closed"
    /\ remote' = [remote EXCEPT ![n].state = "open"]
    /\ UNCHANGED <<last, retry, tasks, run, subIssueApi, artifact, scan, action>>

\* Dependency lists of at most MaxDeps entries over the ids S.
DepLists(S) == UNION { [1..l -> S] : l \in 0..MaxDeps }

FrontMatterBody(id, deps) ==
    [fm |-> TRUE, id |-> id, dependencies |-> deps,
     depSection |-> IF deps = << >> THEN NoSection ELSE EmptySection,
     reqSection |-> NoSection, marker |-> TRUE]

\* The repositories the resolver is run on: every issue open and unlabelled,
\* its dependencies among the issues created before it; the oldest issue
\* with or without a front-matter.
ResolverRepos ==
    { rem \in [Issues -> { Issue("t", b, "open", {}) :
                           b \in {NullBody} \cup
                                 { FrontMatterBody(n, d) : n \in Issues, d \in DepLists(Issues) } }] :
        \A n \in Issues :
            /\ rem[n].body = NullBody => n = 1
            /\ rem[n].body.fm =>
                 /\ rem[n].body.id = n
                 /\ SeqToSet(rem[n].body.dependencies) \subseteq { m \in Issues : m < n } }

ResolverInit ==
    /\ remote \in ResolverRepos
    /\ last = Idle
    /\ retry = RetryIdle
    /\ tasks = << >>
    /\ run = RunIdle
    /\ subIssueApi = FALSE
    /\ artifact = NoDownload
    /\ action = NoAction
    /\ scan = NoScan

ResolverNext ==
    \/ \E n \in Issues : CallIsIssueBlocked(n)
    \/ \E n \in Issues : CallUpdateBlockedStatus(n)
    \/ \E n \in Issues : handleIssueClosure(n)
    \/ ResolverReturn
    \/ \E n \in Issues : CloseIssue(n)
    \/ \E n \in Issues : ReopenIssue(n)

SpecResolver == ResolverInit /\ [][ResolverNext]_vars

(***************************************************************************)
(* The dependency watcher: src/src/dependency-watcher.ts (SpecWatch).      *)
(* The periodic scan and the handler of a closure run at the same time on  *)
(* one repository; a step is one awaited remote operation of one of them.  *)
(* The items of a batch of the scan run concurrently (Promise.all).  No    *)
(* issue is closed, reopened or edited while they run, so the fetches of   *)
(* one isIssueBlocked call see one state and are taken as one step.        *)
(***************************************************************************)
batchSize == 10

\* setTimeout(resolve, 100), in ms
batchDelay == 100

\* Issues beyond the three of the resolver: open, no front-matter, no label.
Fillers == 4..12

Filler(n) == n \in Fillers

\* await isIssueBlocked(n): its fetches succeed, or one of them throws
isBlockedNow(rem, n, fail) ==
    IF fail THEN blockedOnError ELSE isIssueBlocked(rem, n, 1, {}).ret

\* An item at its first await: the scan item awaits isIssueBlocked with the
\* labels of the listing in hand; updateBlockedStatus awaits isIssueBlocked.
ScanItem(hasBlockedLabel) == [NoItem EXCEPT !.pc = "should", !.stale = hasBlockedLabel]

UpdateItem == [NoItem EXCEPT !.pc = "isBlocked"]

itemCatch_rethrows(pc) == "failed"

\* catch (error) { console.error(...); return false; } around one scan item
itemCatch(pc) == pc

\* One awaited operation of an item on issue n, and the labels of n after it.
ItemStep(rem, item, n, fail) ==
    LET labels == rem[n].labels
        done == [item EXCEPT !.pc = "done"]
    IN  CASE item.pc = "should" ->
               LET shouldBeBlocked == isBlockedNow(rem, n, fail)
               IN  [item |-> IF item.stale # shouldBeBlocked
                             THEN [item EXCEPT !.pc = "isBlocked"]
                             ELSE done,
                    labels |-> labels]
          [] item.pc = "isBlocked" ->
               [item |-> [item EXCEPT !.pc = "labels",
                                      !.isBlocked = isBlockedNow(rem, n, fail)],
                labels |-> labels]
          [] item.pc = "labels" ->
               IF fail THEN [item |-> done, labels |-> labels]
               ELSE LET has == "blocked" \in labels
                        w == labelWrite(item.isBlocked, has)
                    IN  [item |-> IF w = "none"
                                  THEN [done EXCEPT !.hadLabel = has]
                                  ELSE [item EXCEPT !.pc = "write", !.hadLabel = has,
                                                    !.write = w],
                         labels |-> labels]
          [] OTHER ->
               [item |-> done,
                labels |-> IF fail THEN labels
                           ELSE IF item.write = "addLabels"
                                THEN labels \cup {"blocked"}
                                ELSE labels \ {"blocked"}]

\* finished[n]: how many items on issue n have run to their end
Counted(finished, n) ==
    (n :> (IF n \in DOMAIN finished THEN finished[n] + 1 ELSE 1)) @@ finished

Fails(fail, n) ==
    [scan EXCEPT !.failures = IF fail THEN @ + 1 ELSE @,
                 !.failedOn = IF fail THEN @ \cup {n} ELSE @]

StartBatch_wholeListing(sc, i) ==
    LET last_ == Len(sc.listing)
        batch == { sc.listing[j].n : j \in i..last_ }
    IN  [sc EXCEPT !.pc = "batch", !.i = i,
                   !.items = [n \in batch |->
                                ScanItem((CHOOSE j \in i..last_ : sc.listing[j].n = n) \in
                                         { j \in i..last_ : sc.listing[j].hasBlockedLabel })],
                   !.batches = Append(@, batch)]

\* The batch that starts at index i of the listing: every item runs up to
\* its first await.
StartBatch(sc, i) ==
    LET last_ == Min(i + batchSize - 1, Len(sc.listing))
        batch == { sc.listing[j].n : j \in i..last_ }
    IN  [sc EXCEPT !.pc = "batch", !.i = i,
                   !.items = [n \in batch |->
                                ScanItem((CHOOSE j \in i..last_ : sc.listing[j].n = n) \in
                                         { j \in i..last_ : sc.listing[j].hasBlockedLabel })],
                   !.batches = Append(@, batch)]

\* scanAllIssuesForBlockedStatus: getAllIssues, the open issues, first batch.
ScanList(fail) ==
    /\ scan.pc = "start"
    /\ fail => scan.failures < MaxFailures
    /\ LET order == SelectSeq(newestFirst(DOMAIN remote),
                              LAMBDA n : remote[n].state = "open")
           listing == [j \in 1..Len(order) |->
                         [n |-> order[j],
                          hasBlockedLabel |-> "blocked" \in remote[order[j]].labels]]
           sc == [scan EXCEPT !.failures = IF fail THEN @ + 1 ELSE @,
                              !.listing = listing]
       IN  scan' = IF fail THEN [sc EXCEPT !.pc = "failed", !.listing = << >>]
                   ELSE IF Len(listing) = 0 THEN [sc EXCEPT !.pc = "done"]
                   ELSE StartBatch(sc, 1)
    /\ UNCHANGED <<remote, last, retry, tasks, run, subIssueApi, artifact, action>>

\* One awaited operation of one item of the current batch.  Items on
\* fillers read one issue and write nothing: they are taken in the order of
\* the listing.
ScanItemStep(n, fail) ==
    /\ scan.pc = "batch"
    /\ n \in DOMAIN scan.items
    /\ scan.items[n].pc # "done"
    /\ Filler(n) => \A m \in DOMAIN scan.items : m > n => scan.items[m].pc = "done"
    /\ fail => scan.failures < MaxFailures
    /\ LET r == ItemStep(remote, scan.items[n], n, fail)
           sc == Fails(fail, n)
           pc == IF fail THEN itemCatch(scan.pc) ELSE scan.pc
       IN  /\ remote' = [remote EXCEPT ![n].labels = r.labels]
           /\ scan' = [sc EXCEPT !.pc = pc,
                                 !.items[n] = r.item,
                                 !.finished = IF r.item.pc = "done"
                                              THEN Counted(@, n) ELSE @]
    /\ UNCHANGED <<last, retry, tasks, run, subIssueApi, artifact, action>>

\* await Promise.all(batchPromises) returns
ScanBatchEnd ==
    /\ scan.pc = "batch"
    /\ \A n \in DOMAIN scan.items : scan.items[n].pc = "done"
    /\ scan' = [scan EXCEPT !.pc = IF scan.i + batchSize <= Len(scan.listing)
                                   THEN "delay" ELSE "done",
                            !.items = << >>]
    /\ UNCHANGED <<remote, last, retry, tasks, run, subIssueApi, artifact, action>>

\* the 100 ms between two batches have elapsed
ScanDelay ==
    /\ scan.pc = "delay"
    /\ scan' = StartBatch([scan EXCEPT !.delays = Append(@, batchDelay)],
                           scan.i + batchSize)
    /\ UNCHANGED <<remote, last, retry, tasks, run, subIssueApi, artifact, action>>

\* handleIssueClosure(c): resolveDependencies lists the issues and keeps
\* those whose dependencies include c.
ClosureList(fail) ==
    /\ scan.closure.pc = "start"
    /\ fail => scan.failures < MaxFailures
    /\ LET todo == SelectSeq(newestFirst(DOMAIN remote),
                             LAMBDA n : dependsOn(remote[n], scan.closure.c))
           sc == [scan EXCEPT !.failures = IF fail THEN @ + 1 ELSE @]
       IN  scan' = IF fail \/ todo = << >>
                   THEN [sc EXCEPT !.closure.pc = "done"]
                   ELSE [sc EXCEPT !.closure.pc = "loop", !.closure.todo = todo,
                                   !.closure.item = UpdateItem]
    /\ UNCHANGED <<remote, last, retry, tasks, run, subIssueApi, artifact, action>>

\* One awaited operation of updateBlockedStatus on the dependent at hand.
ClosureStep(fail) ==
    /\ scan.closure.pc = "loop"
    /\ fail => scan.failures < MaxFailures
    /\ LET n == Head(scan.closure.todo)
           r == ItemStep(remote, scan.closure.item, n, fail)
           sc == Fails(fail, n)
           rest == Tail(scan.closure.todo)
       IN  /\ remote' = [remote EXCEPT ![n].labels = r.labels]
           /\ scan' = IF r.item.pc # "done"
                      THEN [sc EXCEPT !.closure.item = r.item]
                      ELSE IF rest = << >>
                           THEN [sc EXCEPT !.closure.pc = "done", !.closure.item = NoItem,
                                           !.closure.todo = rest,
                                           !.closure.handled = @ \cup {n}]
                           ELSE [sc EXCEPT !.closure.todo = rest,
                                           !.closure.item = UpdateItem,
                                           !.closure.handled = @ \cup {n}]
    /\ UNCHANGED <<last, retry, tasks, run, subIssueApi, artifact, action>>

\* Repositories of the watcher: the three issues with dependencies among the
\* older ones and any blocked labels (earlier runs may have failed), one of
\* them closed; with or without the fillers.
WatchRepos ==
    { [n \in Issues \cup F |->
         IF n \in Issues
         THEN Issue("t", FrontMatterBody(n, IF n = 2 THEN d2 ELSE IF n = 3 THEN d3 ELSE << >>),
                    IF n = c THEN "closed" ELSE "open",
                    IF n \in L THEN {"blocked"} ELSE {})
         ELSE Issue("other", NullBody, "open", {})] :
        d2 \in {<< >>, <<1>>}, d3 \in {<< >>, <<1>>, <<2>>, <<1, 2>>},
        c \in {1, 2}, L \in SUBSET Issues, F \in {{}, Fillers} }

WatchInit ==
    /\ remote \in WatchRepos
    /\ \E c \in {1, 2} :
         /\ remote[c].state = "closed"
         /\ scan = [NoScan EXCEPT !.pc = "start", !.closure.pc = "start",
                                  !.closure.c = c]
    /\ last = Idle
    /\ retry = RetryIdle
    /\ tasks = << >>
    /\ run = RunIdle
    /\ subIssueApi = FALSE
    /\ artifact = NoDownload
    /\ action = NoAction

WatchNext ==
    \/ \E fail \in BOOLEAN : ScanList(fail)
    \/ \E n \in Issues \cup Fillers, fail \in BOOLEAN : ScanItemStep(n, fail)
    \/ ScanBatchEnd
    \/ ScanDelay
    \/ \E fail \in BOOLEAN : ClosureList(fail)
    \/ \E fail \in BOOLEAN : ClosureStep(fail)

SpecWatch == WatchInit /\ [][WatchNext]_vars

(***************************************************************************)
(* The sync engine: src/create-issues.ts.                                  *)
(* A task is [id, title, dependencies, subtasks]; in a body, id also       *)
(* stands for the task's own text (title, details, test strategy, status,  *)
(* priority), which differs from task to task.                             *)
(***************************************************************************)
Titles == {"A", "B"}

Task(id, title, deps, subtasks) ==
    [id |-> id, title |-> title, dependencies |-> deps, subtasks |-> subtasks]

\* tasks.filter(t => t.dependencies?.find(d => d === task.id)): find returns
\* the matching id itself, which filter takes for false when it is 0.
requiredBy(graph, task) ==
    SelectSeq(graph, LAMBDA t :
        \E j \in 1..Len(t.dependencies) :
            t.dependencies[j] = task.id /\ t.dependencies[j] # 0)

\* The body with empty "## Dependencies" and "- Required By:" placeholders.
buildIssueBody(task, reqBy) ==
    [fm |-> TRUE, id |-> task.id, dependencies |-> task.dependencies,
     depSection |-> IF Len(task.dependencies) > 0 THEN EmptySection ELSE NoSection,
     reqSection |-> IF Len(reqBy) > 0 THEN EmptySection ELSE NoSection,
     marker |-> TRUE]

\* The complexity report: task id -> complexityScore, for the tasks it has an
\* entry for.  No report, no entry.
NoComplexity == << >>

\* if (task.id in complexityMap && complexityMap[task.id]): the score is
\* taken for false when it is 0.
hasComplexity(complexityMap, id) ==
    id \in DOMAIN complexityMap /\ complexityMap[id] # 0

\* >= 7 high, >= 4 medium, else low
complexityTier(complexity) ==
    IF complexity >= 7 THEN "complexity:high"
    ELSE IF complexity >= 4 THEN "complexity:medium"
    ELSE "complexity:low"

\* const labels = ['taskmaster']; the priority label when the task has a
\* priority; the complexity label when the report has a score for the task.
initialLabels(task, priority, complexityMap) ==
    {"taskmaster"}
      \cup (IF Truthy(priority) THEN {"priority:" \o priority} ELSE {})
      \cup (IF hasComplexity(complexityMap, task.id)
            THEN {complexityTier(complexityMap[task.id])} ELSE {})

\* What the program holds of an issue it listed or created.
Snap(number, issue) ==
    [number |-> number, title |-> issue.title, body |-> issue.body,
     state |-> issue.state]

\* listForRepo({state: 'all', per_page: 100}): the first page only.
firstPage(rem) ==
    LET order == newestFirst(DOMAIN rem)
    IN  [j \in 1..Min(PerPage, Len(order)) |-> Snap(order[j], rem[order[j]])]

\* Index in the cache of the first issue with this title and the marker, or 0.
findExistingIssue(cache, title) ==
    LET hits == { j \in 1..Len(cache) :
                    cache[j].title = title /\ cache[j].body.marker }
    IN  IF hits = {} THEN 0 ELSE CHOOSE j \in hits : \A h \in hits : j <= h

\* "- [x] #n" for a closed issue, "- [ ] #n" otherwise
CheckboxItems(issues) ==
    [j \in 1..Len(issues) |-> <<issues[j].state = "closed", issues[j].number>>]

updateIssueWithDependencies(body, dependencyIssues) ==
    IF Len(dependencyIssues) = 0 THEN body
    ELSE IF body.depSection.present
         THEN [body EXCEPT !.depSection.items = CheckboxItems(dependencyIssues)]
         ELSE body

updateBodyWithRequiredBy(body, requiredByIssues) ==
    IF Len(requiredByIssues) = 0 THEN body
    ELSE IF body.reqSection.present
         THEN [body EXCEPT !.reqSection.items = CheckboxItems(requiredByIssues)]
         ELSE body

\* ids.map(id => idToIssue[id]).filter(Boolean)
RECURSIVE issuesOf(_, _)
issuesOf(ids, idToIssue) ==
    IF ids = << >> THEN << >>
    ELSE IF Head(ids) \in DOMAIN idToIssue
         THEN <<idToIssue[Head(ids)]>> \o issuesOf(Tail(ids), idToIssue)
         ELSE issuesOf(Tail(ids), idToIssue)

IdsOf(ts) == [j \in 1..Len(ts) |-> ts[j].id]

NextNumber(rem) == IF DOMAIN rem = {} THEN 1 ELSE Maximum(DOMAIN rem) + 1

Bind(idToIssue, id, snap, body) ==
    (id :> [number |-> snap.number, title |-> snap.title, body |-> snap.body,
            state |-> snap.state, expectedBody |-> body]) @@ idToIssue

\* main() is started (one run after the other).
SyncStart ==
    /\ run.pc \in {"idle", "done", "failed"}
    /\ run.n < MaxRuns
    /\ last = Idle
    /\ run' = [RunIdle EXCEPT !.n = run.n + 1, !.pc = "pass1",
                              !.afterClean = (run.pc = "done" /\ ~run.dirty)]
    /\ UNCHANGED <<remote, last, retry, tasks, subIssueApi, artifact, scan, action>>

StepDone(pc, i) ==
    IF i < Len(tasks) THEN [pc |-> pc, i |-> i + 1]
    ELSE [pc |-> CASE pc = "pass1" -> "pass2"
                   [] pc = "pass2" -> "pass3"
                   [] OTHER -> "done",
          i |-> 1]

\* First loop of main(), one task: requiredBy, createOrGetIssue, idToIssue.
\* A remote call that throws ends main() (process.exit(1)).
Pass1Step ==
    /\ run.pc = "pass1"
    /\ \E F \in Failures(2) :
        LET task == tasks[run.i]
            body == buildIssueBody(task, requiredBy(tasks, task))
            needList == run.cache = << >>
            cache == IF needList THEN firstPage(remote) ELSE run.cache
            kCreate == IF needList THEN 2 ELSE 1
            found == findExistingIssue(cache, task.title)
            matching == { n \in DOMAIN remote :
                            remote[n].title = task.title /\ remote[n].body.marker }
            number == NextNumber(remote)
            created == Issue(task.title, body, "open",
                             initialLabels(task, None, NoComplexity))
            next == StepDone("pass1", run.i)
        IN  IF needList /\ ~CallOk(1, F)
            THEN /\ run' = [run EXCEPT !.pc = "failed", !.threw = "listForRepo"]
                 /\ UNCHANGED remote
            ELSE IF found # 0
            THEN /\ run' = [run EXCEPT
                        !.cache = cache,
                        !.idToIssue = Bind(@, task.id, cache[found], body),
                        !.pass1 = Append(@, [id |-> task.id, matching |-> matching,
                                             created |-> FALSE,
                                             number |-> cache[found].number]),
                        !.pc = next.pc, !.i = next.i]
                 /\ UNCHANGED remote
            ELSE IF ~CallOk(kCreate, F)
            THEN /\ run' = [run EXCEPT !.pc = "failed", !.cache = cache,
                                       !.threw = "create"]
                 /\ UNCHANGED remote
            ELSE /\ remote' = (number :> created) @@ remote
                 /\ run' = [run EXCEPT
                        !.cache = Append(cache, Snap(number, created)),
                        !.idToIssue = Bind(@, task.id, Snap(number, created), body),
                        !.pass1 = Append(@, [id |-> task.id, matching |-> matching,
                                             created |-> TRUE, number |-> number]),
                        !.pc = next.pc, !.i = next.i]
    /\ UNCHANGED <<last, retry, tasks, subIssueApi, artifact, scan, action>>

bodyDiffers_always(expectedBody, issue) == TRUE

\* if (issue.expectedBody !== issue.body)
bodyDiffers(expectedBody, issue) == expectedBody # issue.body

\* Second loop of main(), one task: render the dependency and required-by
\* sections, update the issue when the body differs, updateBlockedStatus.
Pass2Step ==
    /\ run.pc = "pass2"
    /\ \E F \in Failures(4 + MaxDeps) :
        LET task == tasks[run.i]
            issue == run.idToIssue[task.id]
            depIssues == issuesOf(task.dependencies, run.idToIssue)
            reqByIssues == issuesOf(IdsOf(requiredBy(tasks, task)), run.idToIssue)
            expectedBody ==
                updateBodyWithRequiredBy(
                    updateIssueWithDependencies(issue.expectedBody, depIssues),
                    reqByIssues)
            differs == bodyDiffers(expectedBody, issue)
            rem1 == IF differs
                    THEN [remote EXCEPT ![issue.number].body = expectedBody]
                    ELSE remote
            u == updateBlockedStatus(rem1, issue.number, IF differs THEN 2 ELSE 1, F)
            next == StepDone("pass2", run.i)
        IN  IF differs /\ ~CallOk(1, F)
            THEN /\ run' = [run EXCEPT
                        !.pc = "failed", !.threw = "update",
                        !.pass2 = Append(@, [id |-> task.id, number |-> issue.number,
                                             rendered |-> expectedBody,
                                             called |-> differs])]
                 /\ UNCHANGED remote
            ELSE /\ remote' = u.remote
                 /\ run' = [run EXCEPT
                        !.idToIssue[task.id].expectedBody = expectedBody,
                        !.updated = IF differs THEN Append(@, issue.number) ELSE @,
                        !.pass2 = Append(@, [id |-> task.id, number |-> issue.number,
                                             rendered |-> expectedBody,
                                             called |-> differs]),
                        !.blocked = Append(@, UpdateView(u)),
                        !.pc = next.pc, !.i = next.i]
    /\ UNCHANGED <<last, retry, tasks, subIssueApi, artifact, scan, action>>

\* createSubIssue: the sub-issue call when the API has it, the comment
\* "Sub-issue: #child" when it has not or when the call throws; a failing
\* comment is logged and dropped.
createSubIssue_noFallbackOnThrow(k, F) ==
    IF subIssueApi
    THEN [via |-> IF CallOk(k, F) THEN "native" ELSE "lost", k |-> k + 1,
          native |-> IF CallOk(k, F) THEN "ok" ELSE "threw", comment |-> "none"]
    ELSE [via |-> IF CallOk(k, F) THEN "comment" ELSE "lost", k |-> k + 1,
          native |-> "none", comment |-> IF CallOk(k, F) THEN "ok" ELSE "threw"]

createSubIssue(k, F) ==
    IF subIssueApi /\ CallOk(k, F)
    THEN [via |-> "native", k |-> k + 1, native |-> "ok", comment |-> "none"]
    ELSE LET kc == IF subIssueApi THEN k + 1 ELSE k
         IN  [via |-> IF CallOk(kc, F) THEN "comment" ELSE "lost", k |-> kc + 1,
              native |-> IF subIssueApi THEN "threw" ELSE "none",
              comment |-> IF CallOk(kc, F) THEN "ok" ELSE "threw"]

RECURSIVE linkSubtasks(_, _, _, _, _, _)
linkSubtasks(parent, subs, j, k, F, links) ==
    IF j > Len(subs) THEN links
    ELSE IF subs[j] \in DOMAIN run.idToIssue
         THEN LET r == createSubIssue(k, F)
              IN  linkSubtasks(parent, subs, j + 1, r.k, F,
                      Append(links, [parent |-> parent,
                                     child |-> run.idToIssue[subs[j]].number,
                                     via |-> r.via, native |-> r.native,
                                     comment |-> r.comment]))
         ELSE linkSubtasks(parent, subs, j + 1, k, F, links)

\* Third loop of main(), one task: the sub-issue links of its subtasks.
Pass3Step ==
    /\ run.pc = "pass3"
    /\ \E F \in Failures(2 * Len(tasks[run.i].subtasks)) :
        LET task == tasks[run.i]
            next == StepDone("pass3", run.i)
        IN  run' = [run EXCEPT
                !.subLinks = linkSubtasks(run.idToIssue[task.id].number,
                                          task.subtasks, 1, 1, F, @),
                !.pc = next.pc, !.i = next.i]
    /\ UNCHANGED <<remote, last, retry, tasks, subIssueApi, artifact, scan, action>>

\* Between two runs: somebody closes an issue; its closure is handled by the
\* dependency watcher; other people file issues and pull requests.  The
\* record of the finished run describes the tracker as the run left it and
\* is dropped when somebody else changes the tracker (dirty).  What happens
\* after the last run is not followed.
CloseBetweenRuns(n) ==
    /\ run.pc = "done"
    /\ run.n < MaxRuns
    /\ last = Idle
    /\ n \in DOMAIN remote
    /\ remote[n].body.marker
    /\ remote[n].state = "open"
    /\ remote' = [remote EXCEPT ![n].state = "closed"]
    /\ run' = [RunIdle EXCEPT !.n = run.n, !.pc = "done", !.dirty = TRUE]
    /\ UNCHANGED <<last, retry, tasks, subIssueApi, artifact, scan, action>>

ClosureHandled(n) ==
    /\ run.pc = "done"
    /\ run.n < MaxRuns
    /\ Cardinality(DOMAIN remote) < PerPage
    /\ n \in DOMAIN remote
    /\ remote[n].body.marker
    /\ remote[n].state = "closed"
    /\ handleIssueClosure(n)

ForeignIssue == Issue("other", NullBody, "closed", {})

OthersFileIssues ==
    /\ run.pc = "done"
    /\ run.n < MaxRuns
    /\ last = Idle
    /\ Cardinality(DOMAIN remote) < PerPage
    /\ LET first == NextNumber(remote)
       IN  remote' = [n \in first..(first + PerPage - 1) |-> ForeignIssue] @@ remote
    /\ run' = [RunIdle EXCEPT !.n = run.n, !.pc = "done", !.dirty = TRUE]
    /\ UNCHANGED <<last, retry, tasks, subIssueApi, artifact, scan, action>>

\* The graphs: tasks 1 and 2, task 2 with the title of task 1 or its own,
\* no dependency, task 1 once or twice, the last task with or without a subtask
\* (subtask ids restart from 1 in every parent).
TaskGraphs ==
    { <<Task(1, "A", << >>, << >>), Task(2, t, d, sub)>> :
        t \in Titles, d \in {<< >>, <<1>>, <<1, 1>>}, sub \in {<< >>, <<1>>} }

\* The repository before the first run: empty, or holding an older issue.
SyncRepos == { << >>, <<ForeignIssue>> }

SyncInit ==
    /\ tasks \in TaskGraphs
    /\ remote \in SyncRepos
    /\ subIssueApi \in BOOLEAN
    /\ artifact = NoDownload
    /\ action = NoAction
    /\ scan = NoScan
    /\ run = RunIdle
    /\ last = Idle
    /\ retry = RetryIdle

SyncNext ==
    \/ SyncStart
    \/ Pass1Step
    \/ Pass2Step
    \/ Pass3Step
    \/ \E n \in DOMAIN remote : CloseBetweenRuns(n)
    \/ \E n \in DOMAIN remote : ClosureHandled(n)
    \/ ResolverReturn
    \/ OthersFileIssues

SpecSync == SyncInit /\ [][SyncNext]_vars

(***************************************************************************)
(* The labels of a created issue (SpecLabels): createOrGetIssue for a task *)
(* that has no issue yet, with a priority or none and a complexity report  *)
(* that has an entry for one task or for none.                             *)
(***************************************************************************)
Priorities == {"low", "medium", "high"}

Scores == 0..10

LabelTaskIds == 1..3

ComplexityMaps ==
    {NoComplexity} \cup { [k \in {id} |-> c] : id \in LabelTaskIds, c \in Scores }

\* createOrGetIssue up to the labels given to octokit.issues.create.
createLabels ==
    /\ action.op = "createOrGetIssue"
    /\ ~action.created
    /\ action' = [action EXCEPT
                    !.created = TRUE,
                    !.labels = initialLabels(tasks[1], action.priority,
                                             action.complexityMap)]
    /\ UNCHANGED <<retry, remote, last, tasks, run, subIssueApi, artifact, scan>>

LabelsInit ==
    /\ tasks \in { <<Task(id, "A", << >>, << >>)>> : id \in LabelTaskIds }
    /\ action \in [op : {"createOrGetIssue"}, priority : Priorities \cup {None},
                   complexityMap : ComplexityMaps, created : {FALSE},
                   labels : {{}}]
    /\ retry = RetryIdle
    /\ remote = << >>
    /\ last = Idle
    /\ run = RunIdle
    /\ subIssueApi = FALSE
    /\ artifact = NoDownload
    /\ scan = NoScan

LabelsNext == createLabels

SpecLabels == LabelsInit /\ [][LabelsNext]_vars

(***************************************************************************)
(* Artifact recovery: restoreFromArtifact (SpecRestore), its body run by   *)
(* the loop of executeWithRetry.  action.log is what logArtifactOperation  *)
(* has written.                                                            *)
(***************************************************************************)
MaxRestores == 3

RestoreMaxRetries == 3

ArtifactIds ==
    {"taskmaster-task-graph-1", "abc123", "invalid-artifact-id",
     "validation-report"}

\* const isValid = artifactId.includes('taskmaster-task-graph-')
validateArtifact(artifactId) == MsgIncludes(artifactId, "taskmaster-task-graph-")

\* new Error(`Invalid artifact: ${artifactId}`)
InvalidArtifactError(artifactId) ==
    Err(NoStatus, None, "Invalid artifact: " \o artifactId, -1, -1)

NoRestore ==
    [op |-> "restoreFromArtifact", artifactId |-> "", restores |-> 0,
     log |-> << >>]

restoreFromArtifact(artifactId) ==
    /\ action.op = "restoreFromArtifact"
    /\ action.restores < MaxRestores
    /\ executeWithRetry(RestoreMaxRetries)
    /\ action' = [action EXCEPT !.artifactId = artifactId, !.restores = @ + 1]
    /\ UNCHANGED <<remote, last, tasks, run, subIssueApi, artifact, scan>>

\* One attempt of the body: validateArtifact, then the restored graph or the
\* 'Invalid artifact' error.
RestoreAttempt ==
    /\ action.op = "restoreFromArtifact"
    /\ IF validateArtifact(action.artifactId)
       THEN /\ RetryAttemptOk
            /\ action' = [action EXCEPT !.log = @ \o <<"validate", "restore">>]
       ELSE /\ RetryAttemptFail(InvalidArtifactError(action.artifactId))
            /\ action' = [action EXCEPT !.log = Append(@, "validate_error")]
    /\ UNCHANGED <<remote, last, tasks, run, subIssueApi, artifact, scan>>

RestoreInit ==
    /\ action = NoRestore
    /\ retry = RetryIdle
    /\ artifact = NoDownload
    /\ remote = << >>
    /\ last = Idle
    /\ tasks = << >>
    /\ run = RunIdle
    /\ subIssueApi = FALSE
    /\ scan = NoScan

RestoreNext ==
    \/ \E artifactId \in ArtifactIds : restoreFromArtifact(artifactId)
    \/ RestoreAttempt

SpecRestore == RestoreInit /\ [][RestoreNext]_vars

(***************************************************************************)
(* The content-hash ledger and TaskmasterAction.run (SpecLedger).  The     *)
(* file .taskmaster/state/content-hashes.json is missing, unreadable or    *)
(* holds a map title -> hash.  Each step of run() is taken with its final  *)
(* outcome (after the retries of executeWithRetry, where it has them).     *)
(***************************************************************************)
Bodies == {"x", "y"}

\* crypto.createHash('md5').update(content).digest('hex'): one hash per
\* content, never the empty string.
generateContentHash(content) == "md5:" \o content

\* What the file may hold for a title: a hash this program wrote for one of
\* the bodies, or any other string, the empty one included.
StoredHashes(title) ==
    { generateContentHash(title \o b) : b \in Bodies } \cup {"", "hash1"}

Ledgers ==
    UNION { { [t \in D |-> f[t]] : f \in [Titles -> UNION { StoredHashes(t) : t \in Titles }] }
            : D \in SUBSET Titles }

WellFormedLedgers ==
    { l \in Ledgers : \A t \in DOMAIN l : l[t] \in StoredHashes(t) }

NoLedger == [t \in {} |-> ""]

\* The file: missing, not parseable, or holding a map.
HashFile(state, hashes) == [state |-> state, hashes |-> hashes]

HashFiles ==
    {HashFile("missing", NoLedger), HashFile("unreadable", NoLedger)}
      \cup { HashFile("map", l) : l \in WellFormedLedgers }

\* this.issueContentHashes.set(title, contentHash)
LedgerSet(hashes, title, contentHash) ==
    [t \in DOMAIN hashes \cup {title} |->
        IF t = title THEN contentHash ELSE hashes[t]]

isIssueContentChanged_noOverwrite(hashes, title, body) ==
    LET contentHash == generateContentHash(title \o body)
    IN  IF title \notin DOMAIN hashes \/ hashes[title] = ""
        THEN [ret |-> TRUE, hashes |-> LedgerSet(hashes, title, contentHash)]
        ELSE IF hashes[title] = contentHash
        THEN [ret |-> FALSE, hashes |-> hashes]
        ELSE [ret |-> TRUE, hashes |-> hashes]

\* existingHash = this.issueContentHashes.get(title); !existingHash holds
\* for a missing entry and for an empty string.
isIssueContentChanged(hashes, title, body) ==
    LET contentHash == generateContentHash(title \o body)
    IN  IF title \notin DOMAIN hashes \/ hashes[title] = ""
        THEN [ret |-> TRUE, hashes |-> LedgerSet(hashes, title, contentHash)]
        ELSE IF hashes[title] = contentHash
        THEN [ret |-> FALSE, hashes |-> hashes]
        ELSE [ret |-> TRUE, hashes |-> LedgerSet(hashes, title, contentHash)]

NoCall == [title |-> "", body |-> "", ret |-> FALSE, before |-> NoLedger]

\* new TaskmasterAction(inputs), and the file as the run finds it
NewAction(hashFile) ==
    [op |-> "run", pc |-> "start", issueContentHashes |-> NoLedger,
     hashFile |-> hashFile, steps |-> << >>, exit |-> "none", call |-> NoCall]

\* loadExistingContentHashes: the map of the file when it exists and parses,
\* the map as it is otherwise.
loadExistingContentHashes(hashes, hashFile) ==
    IF hashFile.state = "map" THEN hashFile.hashes ELSE hashes

\* saveContentHashes: writeFileSync; a failing write is logged and dropped.
saveContentHashes(hashes, hashFile, writeOk) ==
    IF writeOk THEN HashFile("map", hashes) ELSE hashFile

StepOf(pc) ==
    CASE pc = "start" -> "loadExistingContentHashes"
      [] pc = "cli" -> "downloadAndValidate"
      [] pc = "prd" -> "findPRDFiles"
      [] pc = "generate" -> "generateTaskGraph"
      [] pc = "saveGraph" -> "saveTaskGraph"
      [] pc = "saveHashes" -> "saveContentHashes"
      [] pc = "upload" -> "uploadToArtifacts"
      [] OTHER -> "none"

PcAfter(pc) ==
    CASE pc = "start" -> "cli"
      [] pc = "cli" -> "prd"
      [] pc = "prd" -> "generate"
      [] pc = "generate" -> "saveGraph"
      [] pc = "saveGraph" -> "saveHashes"
      [] pc = "saveHashes" -> "upload"
      [] OTHER -> "ended"

\* run(): the next step succeeds.
RunStep ==
    /\ action.op = "run"
    /\ action.pc \notin {"ended"}
    /\ LET step == StepOf(action.pc)
           a == [action EXCEPT !.steps = Append(@, step),
                               !.pc = PcAfter(action.pc),
                               !.exit = IF PcAfter(action.pc) = "ended"
                                        THEN "completed" ELSE @]
       IN  \/ /\ step = "loadExistingContentHashes"
              /\ action' = [a EXCEPT !.issueContentHashes =
                               loadExistingContentHashes(@, action.hashFile)]
           \/ /\ step = "saveContentHashes"
              /\ \E writeOk \in BOOLEAN :
                   action' = [a EXCEPT !.hashFile =
                                saveContentHashes(action.issueContentHashes,
                                                  @, writeOk)]
           \/ /\ step \notin {"loadExistingContentHashes", "saveContentHashes"}
              /\ action' = a
    /\ UNCHANGED <<retry, remote, last, tasks, run, subIssueApi, artifact, scan>>

\* run(): no PRD file matches the pattern: return.
RunNoPrdFiles ==
    /\ action.op = "run"
    /\ action.pc = "prd"
    /\ action' = [action EXCEPT !.steps = Append(@, "findPRDFiles"),
                                !.pc = "ended", !.exit = "returned"]
    /\ UNCHANGED <<retry, remote, last, tasks, run, subIssueApi, artifact, scan>>

\* run(): a step throws (for good): catch, core.setFailed, process.exit(1).
RunStepThrows ==
    /\ action.op = "run"
    /\ action.pc \in {"cli", "prd", "generate", "saveGraph", "upload"}
    /\ action' = [action EXCEPT !.steps = Append(@, StepOf(action.pc)),
                                !.pc = "ended", !.exit = "failed"]
    /\ UNCHANGED <<retry, remote, last, tasks, run, subIssueApi, artifact, scan>>

\* A call of isIssueContentChanged on the running instance.
CallIsIssueContentChanged(title, body) ==
    /\ action.op = "run"
    /\ action.pc \notin {"start", "ended"}
    /\ LET r == isIssueContentChanged(action.issueContentHashes, title, body)
       IN  action' = [action EXCEPT
                        !.issueContentHashes = r.hashes,
                        !.call = [title |-> title, body |-> body, ret |-> r.ret,
                                  before |-> action.issueContentHashes]]
    /\ UNCHANGED <<retry, remote, last, tasks, run, subIssueApi, artifact, scan>>

LedgerInit ==
    /\ action \in { NewAction(f) : f \in HashFiles }
    /\ artifact = NoDownload
    /\ tasks = << >>
    /\ retry = RetryIdle
    /\ remote = << >>
    /\ last = Idle
    /\ run = RunIdle
    /\ subIssueApi = FALSE
    /\ scan = NoScan

LedgerNext ==
    \/ RunStep
    \/ RunNoPrdFiles
    \/ RunStepThrows
    \/ \E title \in Titles, body \in Bodies : CallIsIssueContentChanged(title, body)

SpecLedger == LedgerInit /\ [][LedgerNext]_vars

(***************************************************************************)
(* validateTaskGraphStructure (SpecValidate).  A value of the parsed JSON  *)
(* is [type, s, n]: undefined (the property is missing), a string s or a   *)
(* number n.                                                               *)
(***************************************************************************)
JsUndefined == [type |-> "undefined", s |-> "", n |-> 0]

JsString(s) == [type |-> "string", s |-> s, n |-> 0]

JsNumber(n) == [type |-> "number", s |-> "", n |-> n]

\* !value
Falsy(v) ==
    \/ v.type = "undefined"
    \/ v.type = "string" /\ v.s = ""
    \/ v.type = "number" /\ v.n = 0

GraphIds == {JsUndefined, JsString(""), JsNumber(0), JsNumber(1)}

GraphTitles == {JsUndefined, JsString(""), JsString("A")}

GraphTasks == [id : GraphIds, title : GraphTitles]

\* master.tasks: something that is not an array ('not an array'), or an
\* array of at most two tasks.
GraphTaskLists ==
    {[isArray |-> FALSE, items |-> << >>]}
      \cup { [isArray |-> TRUE, items |-> l] :
               l \in {<< >>} \cup { <<t>> : t \in GraphTasks }
                             \cup (GraphTasks \X GraphTasks) }

ParsedGraphs ==
    [master : BOOLEAN, metadata : BOOLEAN, tasks : GraphTaskLists]

\* The message of the error thrown, or "passed".
validateTaskGraphStructure(taskGraph) ==
    IF ~taskGraph.master \/ ~taskGraph.metadata
    THEN "Invalid task graph structure: missing master or metadata"
    ELSE IF ~taskGraph.tasks.isArray
    THEN "Invalid task graph structure: tasks must be an array"
    ELSE IF \E k \in 1..Len(taskGraph.tasks.items) :
                Falsy(taskGraph.tasks.items[k].id)
                  \/ Falsy(taskGraph.tasks.items[k].title)
    THEN "Invalid task structure: missing id or title"
    ELSE "passed"

CallValidateTaskGraphStructure ==
    /\ action.op = "validateTaskGraphStructure"
    /\ action.outcome = "none"
    /\ action' = [action EXCEPT
                    !.outcome = validateTaskGraphStructure(action.taskGraph)]
    /\ UNCHANGED <<retry, remote, last, tasks, run, subIssueApi, artifact, scan>>

ValidateInit ==
    /\ action \in [op : {"validateTaskGraphStructure"}, taskGraph : ParsedGraphs,
                   outcome : {"none"}]
    /\ tasks = << >>
    /\ retry = RetryIdle
    /\ remote = << >>
    /\ last = Idle
    /\ run = RunIdle
    /\ subIssueApi = FALSE
    /\ artifact = NoDownload
    /\ scan = NoScan

ValidateNext == CallValidateTaskGraphStructure

SpecValidate == ValidateInit /\ [][ValidateNext]_vars

(***************************************************************************)
(* The reverse edges (SpecRequiredBy): the requiredBy computation of the   *)
(* first loop of main(), on graphs of three tasks whose ids are 0, 1, 2 or *)
(* 1, 2, 3 and whose dependency lists name up to two ids of the graph.     *)
(***************************************************************************)
ReverseIdLists == { <<0, 1, 2>>, <<1, 2, 3>> }

ReverseDepLists(ids) ==
    {<< >>} \cup { <<a>> : a \in SeqToSet(ids) }
            \cup (SeqToSet(ids) \X SeqToSet(ids))

ReverseGraphs ==
    UNION { { [k \in 1..Len(ids) |-> Task(ids[k], "A", d[k], << >>)] :
                d \in [1..Len(ids) -> ReverseDepLists(ids)] }
            : ids \in ReverseIdLists }

\* task.requiredBy = tasks.filter(...) for the next task of the loop
SetRequiredBy ==
    /\ action.op = "requiredBy"
    /\ action.i <= Len(tasks)
    /\ action' = [action EXCEPT
                    !.requiredBy = Append(@, requiredBy(tasks, tasks[action.i])),
                    !.i = @ + 1]
    /\ UNCHANGED <<retry, remote, last, tasks, run, subIssueApi, artifact, scan>>

RequiredByInit ==
    /\ tasks \in ReverseGraphs
    /\ action = [op |-> "requiredBy", i |-> 1, requiredBy |-> << >>]
    /\ retry = RetryIdle
    /\ remote = << >>
    /\ last = Idle
    /\ run = RunIdle
    /\ subIssueApi = FALSE
    /\ artifact = NoDownload
    /\ scan = NoScan

RequiredByNext == SetRequiredBy

SpecRequiredBy == RequiredByInit /\ [][RequiredByNext]_vars

(***************************************************************************)
(* Statistics: calculateHierarchyDepth (SpecDepth).  The two recursive      *)
(* closures, hasCycle and calculateDepth, are run with their call stack:   *)
(* a frame is [taskId, j, maxDepth], j the index of the dependency the     *)
(* frame's loop is at.  A call that would make the stack deeper than       *)
(* MaxStack frames ends the computation (RangeError).                      *)
(***************************************************************************)
MaxStack == 6

DepthIds == 1..4

\* The dependency lists of the graphs: at most two different ids.
DepthDepLists ==
    {<< >>} \cup { <<a>> : a \in DepthIds }
            \cup { p \in DepthIds \X DepthIds : p[1] # p[2] }

\* The graphs: tasks 1..n in this order, n <= 3; a dependency may name the
\* task itself, a later task, or no task of the graph (4).
DepthGraphs ==
    UNION { { [k \in 1..n |-> Task(k, "A", d[k], << >>)] :
                d \in [1..n -> DepthDepLists] } : n \in 0..3 }

\* tasks.find(t => t.id === taskId), then task.dependencies; no dependency
\* when there is no such task.
dependenciesOf(ts, taskId) ==
    IF \E k \in 1..Len(ts) : ts[k].id = taskId
    THEN ts[CHOOSE k \in 1..Len(ts) :
                /\ ts[k].id = taskId
                /\ \A l \in 1..(k - 1) : ts[l].id # taskId].dependencies
    ELSE << >>

NoMemo == [id \in DepthIds |-> 0]

DepthStart ==
    [op |-> "calculateHierarchyDepth", pc |-> "cycles", i |-> 1,
     visited |-> {}, path |-> {}, stack |-> << >>, memo |-> NoMemo,
     best |-> 0, result |-> -1, invocations |-> 0]

Frame(taskId) == [taskId |-> taskId, j |-> 1, maxDepth |-> 0]

Top(stack) == stack[Len(stack)]

Pop(stack) == SubSeq(stack, 1, Len(stack) - 1)

\* the loop of the caller goes on with its next dependency
Advance(stack, value) ==
    [stack EXCEPT ![Len(stack)].j = @ + 1,
                  ![Len(stack)].maxDepth = Max(@, value)]

inPath_never(taskId, path) == FALSE

\* if (path.has(taskId)) return true;
inPath(taskId, path) == taskId \in path

depthAbove_same(maxDepth) == Max(maxDepth, 1)

\* const depth = maxDepth + 1;
depthAbove(maxDepth) == maxDepth + 1

\* A call pushes a frame unless the stack is exhausted.
Push(a, taskId) ==
    IF Len(a.stack) >= MaxStack
    THEN [a EXCEPT !.pc = "overflow"]
    ELSE [a EXCEPT !.stack = Append(@, Frame(taskId))]

calculateHierarchyDepth ==
    /\ action = NoAction
    /\ action' = IF Len(tasks) = 0
                 THEN [DepthStart EXCEPT !.pc = "done", !.result = 0]
                 ELSE DepthStart
    /\ UNCHANGED <<retry, remote, last, tasks, run, subIssueApi, artifact, scan>>

\* for (const task of tasks) if (!visited.has(task.id)) hasCycle(task.id, ...)
\* and, after the loop, the passage to the depth calculation.
CycleLoop ==
    /\ action.op = "calculateHierarchyDepth"
    /\ action.pc = "cycles"
    /\ action.stack = << >>
    /\ action' =
         IF action.i > Len(tasks)
         THEN [action EXCEPT !.pc = "depths", !.i = 1]
         ELSE LET id == tasks[action.i].id
              IN  IF id \in action.visited
                  THEN [action EXCEPT !.i = @ + 1]
                  ELSE Push([action EXCEPT !.visited = @ \cup {id},
                                           !.path = {id},
                                           !.invocations = @ + 1], id)
    /\ UNCHANGED <<retry, remote, last, tasks, run, subIssueApi, artifact, scan>>

\* hasCycle(depId, visited, path) called from the loop of a frame.
hasCycleCall ==
    /\ action.op = "calculateHierarchyDepth"
    /\ action.pc = "cycles"
    /\ action.stack # << >>
    /\ LET top == Top(action.stack)
           deps == dependenciesOf(tasks, top.taskId)
       IN  /\ top.j <= Len(deps)
           /\ LET depId == deps[top.j]
                  a == [action EXCEPT !.invocations = @ + 1]
              IN  action' =
                    IF inPath(depId, action.path)
                    THEN [a EXCEPT !.pc = "done", !.result = 1]
                    ELSE IF depId \in action.visited
                    THEN [a EXCEPT !.stack = Advance(@, 0)]
                    ELSE Push([a EXCEPT !.visited = @ \cup {depId},
                                        !.path = @ \cup {depId}], depId)
    /\ UNCHANGED <<retry, remote, last, tasks, run, subIssueApi, artifact, scan>>

\* path.delete(taskId); return false;
hasCycleReturn ==
    /\ action.op = "calculateHierarchyDepth"
    /\ action.pc = "cycles"
    /\ action.stack # << >>
    /\ LET top == Top(action.stack)
           rest == Pop(action.stack)
       IN  /\ top.j > Len(dependenciesOf(tasks, top.taskId))
           /\ action' = [action EXCEPT
                  !.path = @ \ {top.taskId},
                  !.stack = IF rest = << >> THEN rest ELSE Advance(rest, 0),
                  !.i = IF rest = << >> THEN @ + 1 ELSE @]
    /\ UNCHANGED <<retry, remote, last, tasks, run, subIssueApi, artifact, scan>>

\* calculateDepth(taskId, memo) where it returns without recursion: the memo
\* has it, or the task is missing or has no dependency.  0: it recurses.
depthAtOnce(memo, taskId) ==
    IF memo[taskId] # 0 THEN memo[taskId]
    ELSE IF dependenciesOf(tasks, taskId) = << >> THEN 1
    ELSE 0

\* Math.max(...tasks.map(task => calculateDepth(task.id, memo)))
DepthLoop ==
    /\ action.op = "calculateHierarchyDepth"
    /\ action.pc = "depths"
    /\ action.stack = << >>
    /\ action' =
         IF action.i > Len(tasks)
         THEN [action EXCEPT !.pc = "done", !.result = action.best]
         ELSE LET id == tasks[action.i].id
                  v == depthAtOnce(action.memo, id)
                  a == [action EXCEPT !.invocations = @ + 1]
              IN  IF v # 0
                  THEN [a EXCEPT !.memo[id] = v, !.best = Max(@, v), !.i = @ + 1]
                  ELSE Push(a, id)
    /\ UNCHANGED <<retry, remote, last, tasks, run, subIssueApi, artifact, scan>>

\* calculateDepth(depId, memo) called from the loop of a frame.
calculateDepthCall ==
    /\ action.op = "calculateHierarchyDepth"
    /\ action.pc = "depths"
    /\ action.stack # << >>
    /\ LET top == Top(action.stack)
           deps == dependenciesOf(tasks, top.taskId)
       IN  /\ top.j <= Len(deps)
           /\ LET depId == deps[top.j]
                  v == depthAtOnce(action.memo, depId)
                  a == [action EXCEPT !.invocations = @ + 1]
              IN  action' =
                    IF v # 0
                    THEN [a EXCEPT !.memo[depId] = v, !.stack = Advance(@, v)]
                    ELSE Push(a, depId)
    /\ UNCHANGED <<retry, remote, last, tasks, run, subIssueApi, artifact, scan>>

\* memo.set(taskId, depth); return depth;
calculateDepthReturn ==
    /\ action.op = "calculateHierarchyDepth"
    /\ action.pc = "depths"
    /\ action.stack # << >>
    /\ LET top == Top(action.stack)
           rest == Pop(action.stack)
           depth == depthAbove(top.maxDepth)
       IN  /\ top.j > Len(dependenciesOf(tasks, top.taskId))
           /\ action' = [action EXCEPT
                  !.memo[top.taskId] = depth,
                  !.stack = IF rest = << >> THEN rest ELSE Advance(rest, depth),
                  !.best = IF rest = << >> THEN Max(@, depth) ELSE @,
                  !.i = IF rest = << >> THEN @ + 1 ELSE @]
    /\ UNCHANGED <<retry, remote, last, tasks, run, subIssueApi, artifact, scan>>

DepthInit ==
    /\ tasks \in DepthGraphs
    /\ action = NoAction
    /\ retry = RetryIdle
    /\ remote = << >>
    /\ last = Idle
    /\ run = RunIdle
    /\ subIssueApi = FALSE
    /\ artifact = NoDownload
    /\ scan = NoScan

DepthNext ==
    \/ calculateHierarchyDepth
    \/ CycleLoop
    \/ hasCycleCall
    \/ hasCycleReturn
    \/ DepthLoop
    \/ calculateDepthCall
    \/ calculateDepthReturn

SpecDepth == DepthInit /\ [][DepthNext]_vars

\* The computation is not suspended: it is synchronous code.
SpecDepthFair == SpecDepth /\ WF_vars(DepthNext)

(***************************************************************************)
(* The /breakdown command (SpecBreakdown).  The tracker is the parent      *)
(* issue #1 (its front-matter, its state, the "Breakdown Results" sections *)
(* appended to its body), the number of issues filed, the sub-issues the   *)
(* tracker knows of the parent, and the "Sub-issue: #n" comments on it.    *)
(* The Taskmaster CLI is not part of the sources at hand: its result is    *)
(* an input, a number of subtasks or a throw.                              *)
(***************************************************************************)
MaxSubtasks == 2        \* subtasks the CLI returns for one breakdown
MaxBreakdowns == 2      \* /breakdown commands on the parent issue

BreakdownMetadata(id, performed) == [id |-> id, breakdown_performed |-> performed]

\* What a finished executeBreakdown returns.
BreakdownResult(success, subIssuesCreated) ==
    [success |-> success, subIssuesCreated |-> subIssuesCreated]

\* getSubIssues: the list call when octokit has it; [] when it has not, and
\* [] when the call throws.
getSubIssues(rem, k, F) ==
    IF action.listSubIssues
    THEN [subIssues |-> IF CallOk(k, F) THEN rem.subIssues ELSE {}, k |-> k + 1]
    ELSE [subIssues |-> {}, k |-> k]

\* checkIdempotency: the parent is fetched (call k); a throw anywhere gives
\* false.
checkIdempotency(rem, k, F) ==
    IF ~CallOk(k, F) THEN [already |-> FALSE, k |-> k + 1]
    ELSE IF rem.parent.metadata.breakdown_performed
         THEN [already |-> TRUE, k |-> k + 1]
         ELSE LET r == getSubIssues(rem, k + 1, F)
              IN  [already |-> r.subIssues # {}, k |-> r.k]

\* createSubIssuesFromCLIResult from subtask j on: an issue is filed (call
\* k) and linked to the parent; a subtask whose issue cannot be filed is
\* logged and left out.
RECURSIVE createSubIssuesFromCLIResult(_, _, _, _, _, _)
createSubIssuesFromCLIResult(rem, subtasks, j, k, F, subIssueNumbers) ==
    IF j > subtasks
    THEN [rem |-> rem, k |-> k, subIssueNumbers |-> subIssueNumbers]
    ELSE IF ~CallOk(k, F)
         THEN createSubIssuesFromCLIResult(rem, subtasks, j + 1, k + 1, F,
                                           subIssueNumbers)
         ELSE LET number == rem.issues + 1
                  link == createSubIssue(k + 1, F)
                  linked == [rem EXCEPT
                      !.issues = number,
                      !.subIssues = IF link.via = "native"
                                    THEN @ \cup {number} ELSE @,
                      !.comments = IF link.via = "comment"
                                   THEN @ \cup {number} ELSE @]
              IN  createSubIssuesFromCLIResult(linked, subtasks, j + 1, link.k,
                      F, Append(subIssueNumbers, number))

\* updateParentIssueAfterBreakdown: updateIssueWithMetadata (call k, a
\* failure is logged and dropped), then the parent is closed (call k + 1, a
\* failure is thrown on).
updateParentIssueAfterBreakdown(rem, k, F) ==
    LET written == IF CallOk(k, F)
                   THEN [rem EXCEPT
                            !.parent.metadata.breakdown_performed = TRUE,
                            !.parent.results = @ + 1]
                   ELSE rem
    IN  IF CallOk(k + 1, F)
        THEN [rem |-> [written EXCEPT !.parent.state = "closed"],
              threw |-> FALSE]
        ELSE [rem |-> written, threw |-> TRUE]

\* The remote calls one executeBreakdown makes at most.
BreakdownCalls == 3 + 3 * MaxSubtasks + 2

\* What the CLI gives: a throw, or a number of subtasks.
CliResult(threw, subtasks) == [threw |-> threw, subtasks |-> subtasks]

CliResults == {CliResult(TRUE, 0)} \cup { CliResult(FALSE, n) : n \in 0..MaxSubtasks }

\* executeBreakdown as a whole: the tracker it leaves and what it returns.
executeBreakdownOn(rem, cli, F) ==
    LET check == checkIdempotency(rem, 1, F)
        failed == BreakdownResult(FALSE, << >>)
    IN  IF check.already
        THEN [rem |-> rem, result |-> BreakdownResult(TRUE, << >>)]
        ELSE IF ~CallOk(check.k, F) \/ Falsy(rem.parent.metadata.id)
                  \/ cli.threw
        THEN [rem |-> rem, result |-> failed]
        ELSE IF cli.subtasks = 0
        THEN [rem |-> rem, result |-> BreakdownResult(TRUE, << >>)]
        ELSE LET made == createSubIssuesFromCLIResult(rem, cli.subtasks, 1,
                                                      check.k + 1,
                                                      F, << >>)
                 upd == updateParentIssueAfterBreakdown(made.rem, made.k, F)
             IN  [rem |-> upd.rem,
                  result |-> IF upd.threw THEN failed
                             ELSE BreakdownResult(TRUE, made.subIssueNumbers)]

executeBreakdown(cli) ==
    /\ action.op = "breakdown"
    /\ action.n < MaxBreakdowns
    /\ \E F \in Failures(BreakdownCalls) :
        LET r == executeBreakdownOn(remote, cli, F)
        IN  /\ remote' = r.rem
            /\ action' = [action EXCEPT !.n = @ + 1, !.before = remote,
                                        !.failed = F, !.result = r.result]
    /\ UNCHANGED <<retry, last, tasks, run, subIssueApi, artifact, scan>>

\* Somebody makes issue #2 a sub-issue of the parent in the tracker.
OthersAddSubIssue ==
    /\ action.op = "breakdown"
    /\ action.n < MaxBreakdowns
    /\ 2 \notin remote.subIssues
    /\ remote' = [remote EXCEPT !.subIssues = @ \cup {2}]
    /\ UNCHANGED <<retry, last, tasks, run, subIssueApi, artifact, scan, action>>

NoBreakdownResult == [success |-> FALSE, subIssuesCreated |-> <<0>>]

BreakdownInit ==
    /\ retry = RetryIdle
    /\ last = Idle
    /\ tasks = << >>
    /\ run = RunIdle
    /\ artifact = NoDownload
    /\ scan = NoScan
    /\ subIssueApi \in BOOLEAN
    /\ \E id \in {JsUndefined, JsNumber(0), JsNumber(1)} :
        remote = [parent |-> [metadata |-> BreakdownMetadata(id, FALSE),
                              state |-> "open", results |-> 0],
                  issues |-> 2, subIssues |-> {}, comments |-> {}]
    /\ \E list \in BOOLEAN :
        action = [op |-> "breakdown", listSubIssues |-> list, n |-> 0,
                  before |-> remote, failed |-> {},
                  result |-> NoBreakdownResult]

BreakdownNext ==
    \/ \E cli \in CliResults : executeBreakdown(cli)
    \/ OthersAddSubIssue

SpecBreakdown == BreakdownInit /\ [][BreakdownNext]_vars

(***************************************************************************)
(* Two runs of main() of the sync engine at the same time on one           *)
(* repository (SpecTwoRuns): two processes, each with its own              *)
(* allIssuesCache and idToIssue.  Only the first loop of main() is         *)
(* followed, one step per awaited call: the later loops file no issue.     *)
(* Remote calls do not fail here.                                          *)
(***************************************************************************)
Runs == {1, 2}

\* A process that has just started main().
RunStarted == [pc |-> "find", i |-> 1, cache |-> << >>, idToIssue |-> << >>]

\* Where the first loop goes after task i.
AfterTask(i) ==
    IF i < Len(tasks) THEN [pc |-> "find", i |-> i + 1]
    ELSE [pc |-> "linking", i |-> i]

\* createOrGetIssue up to its create call: findExistingIssue lists the
\* repository when the cache is empty; a task whose issue is found is bound.
FindStep(p) ==
    /\ run[p].pc = "find"
    /\ LET task == tasks[run[p].i]
           body == buildIssueBody(task, requiredBy(tasks, task))
           cache == IF run[p].cache = << >> THEN firstPage(remote)
                    ELSE run[p].cache
           found == findExistingIssue(cache, task.title)
           next == AfterTask(run[p].i)
       IN  run' = [run EXCEPT ![p] =
                IF found # 0
                THEN [@ EXCEPT !.cache = cache,
                               !.idToIssue = Bind(@, task.id, cache[found], body),
                               !.pc = next.pc, !.i = next.i]
                ELSE [@ EXCEPT !.cache = cache, !.pc = "create"]]
    /\ UNCHANGED <<remote, last, retry, tasks, subIssueApi, artifact, scan, action>>

\* The create call of createOrGetIssue returns: the issue is on the tracker
\* (octokit.issues.create files it whatever the tracker holds), in the cache
\* and in idToIssue.
CreateStep(p) ==
    /\ run[p].pc = "create"
    /\ LET task == tasks[run[p].i]
           body == buildIssueBody(task, requiredBy(tasks, task))
           number == NextNumber(remote)
           created == Issue(task.title, body, "open",
                            initialLabels(task, None, NoComplexity))
           next == AfterTask(run[p].i)
       IN  /\ remote' = (number :> created) @@ remote
           /\ run' = [run EXCEPT ![p] =
                [@ EXCEPT !.cache = Append(@, Snap(number, created)),
                          !.idToIssue = Bind(@, task.id, Snap(number, created), body),
                          !.pc = next.pc, !.i = next.i]]
    /\ UNCHANGED <<last, retry, tasks, subIssueApi, artifact, scan, action>>

\* The graphs of the two runs: one task or two, with titles of their own.
TwoRunsGraphs ==
    { <<Task(1, "A", << >>, << >>)>>,
      <<Task(1, "A", << >>, << >>), Task(2, "B", <<1>>, << >>)>> }

\* The repository before the runs: empty, holding an older issue, or
\* holding the issue an earlier run filed for task 1.
TwoRunsRepos ==
    SyncRepos \cup
      { <<Issue("A", buildIssueBody(Task(1, "A", << >>, << >>), << >>),
               st, {"taskmaster"})>> : st \in {"open", "closed"} }

TwoRunsInit ==
    /\ tasks \in TwoRunsGraphs
    /\ remote \in TwoRunsRepos
    /\ run = [p \in Runs |-> RunStarted]
    /\ subIssueApi = FALSE
    /\ artifact = NoDownload
    /\ action = NoAction
    /\ scan = NoScan
    /\ last = Idle
    /\ retry = RetryIdle

TwoRunsNext ==
    \/ \E p \in Runs : FindStep(p)
    \/ \E p \in Runs : CreateStep(p)

SpecTwoRuns == TwoRunsInit /\ [][TwoRunsNext]_vars

(***************************************************************************)
(* Claims about the sync engine (stated over SpecSync).                    *)
(***************************************************************************)
\* The issue a finished first loop has bound the task to.
BoundIssue(id) == run.idToIssue[id].number

\* C1: a run that follows a completed run on the same task graph, with no
\* change of the remote state in between, makes no issue-update call.
C1_SecondRunMakesNoUpdate ==
    run.afterClean => run.updated = << >>

\* C2: for every task looked up in a run: when an issue with the task's title
\* and the marker exists on the tracker, the run makes no create call for the
\* task and binds it to such an issue; otherwise it creates the task's issue.
C2_FindOrCreate ==
    \A j \in 1..Len(run.pass1) :
        LET r == run.pass1[j]
        IN  /\ r.matching # {} => (~r.created /\ r.number \in r.matching)
            /\ r.matching = {} => r.created

\* C4: after a run whose remote calls all succeeded, and with the tracker as
\* the run left it, the issue of a task A that depends on a task B carries
\* the blocked label while B's issue is open.
C4_BlockedWhileDependencyOpen ==
    (run.pc = "done" /\ ~run.dirty
        /\ \A j \in 1..Len(run.blocked) :
              /\ ~run.blocked[j].failed
              /\ run.blocked[j].labelsFetched
              /\ (run.blocked[j].write = "none" \/ run.blocked[j].writeOk))
    => \A a \in 1..Len(tasks) : \A b \in 1..Len(tasks) :
           (/\ tasks[b].id \in SeqToSet(tasks[a].dependencies)
            /\ remote[BoundIssue(tasks[b].id)].state = "open")
           => "blocked" \in remote[BoundIssue(tasks[a].id)].labels

\* C33: for a task A that depends on a task B, the blocked state the run
\* computes for A's issue (no fetch failing) is "blocked" exactly when the
\* issue bound to some B is open, whatever the number of that issue.
C33_BlockedFollowsBoundIssue ==
    run.pc = "done" =>
        \A a \in 1..Len(run.blocked) :
            ~run.blocked[a].failed =>
                (run.blocked[a].isBlocked
                   <=> \E b \in 1..Len(tasks) :
                         /\ tasks[b].id \in SeqToSet(tasks[a].dependencies)
                         /\ remote[BoundIssue(tasks[b].id)].state = "open")

\* C35: within a run the binding of tasks to issues is one-to-one: two
\* distinct tasks are never bound to one issue, and a task is never bound
\* to two issues.
C35_BindingIsOneToOne ==
    /\ \A a \in 1..Len(tasks) : \A b \in 1..Len(tasks) :
          (/\ tasks[a].id # tasks[b].id
           /\ tasks[a].id \in DOMAIN run.idToIssue
           /\ tasks[b].id \in DOMAIN run.idToIssue)
          => BoundIssue(tasks[a].id) # BoundIssue(tasks[b].id)
    /\ \A j \in 1..Len(run.pass1) : \A l \in 1..Len(run.pass1) :
          run.pass1[j].id = run.pass1[l].id
            => run.pass1[j].number = run.pass1[l].number

\* C36: the sync engine makes no remote write for a task whose title and
\* body hash to its ledger entry.  The ledger is not read by main(), so the
\* run is the same for every ledger, the one included that holds the hash
\* of every task as the finished run before left it on an unchanged
\* tracker: such a run files no issue, updates no body, writes no label
\* and posts no sub-issue link.
C36_UnchangedTaskIsNotWritten ==
    (run.afterClean /\ run.pc = "done") =>
        /\ \A j \in 1..Len(run.pass1) : ~run.pass1[j].created
        /\ run.updated = << >>
        /\ \A j \in 1..Len(run.blocked) : run.blocked[j].write = "none"
        /\ \A j \in 1..Len(run.subLinks) : run.subLinks[j].via = "lost"

\* C17: when the creation of a task's issue fails, the run does not end
\* there: it goes on with the remaining tasks; and a failing sub-issue link
\* leaves the run going as well.
C17_CreateFailureIsLocal ==
    /\ run.threw # "create"
    /\ \A j \in 1..Len(run.subLinks) :
         run.subLinks[j].via = "lost" => run.pc # "failed"

\* C18: a remote call of the sync engine that fails is made again instead
\* of being given up: with no more failing calls than the retry executor
\* makes retries, no call of a run is lost, so main() does not throw and
\* every blocked-state update reads what it needs and has its label write
\* take effect.
C18_FailingCallsAreRetried ==
    /\ run.threw = "none"
    /\ \A j \in 1..Len(run.blocked) :
         /\ ~run.blocked[j].failed
         /\ run.blocked[j].labelsFetched
         /\ (run.blocked[j].write = "none" \/ run.blocked[j].writeOk)

\* C19: createSubIssue calls the native operation when it exists; when it
\* does not exist or throws, the comment is posted on the parent in its
\* place; whatever fails, createSubIssue returns and the run goes on.
C19_SubIssueFallbackNeverFails ==
    /\ \A j \in 1..Len(run.subLinks) :
         LET l == run.subLinks[j]
         IN  /\ l.native = "none" <=> ~subIssueApi
             /\ l.comment # "none" <=> l.native # "ok"
             /\ l.via = "native" <=> l.native = "ok"
             /\ l.via = "comment" <=> l.comment = "ok"
             /\ l.via = "lost" <=> l.comment = "threw"
    /\ run.subLinks # << >> => run.pc \in {"pass3", "done"}

\* the native call threw, the comment was posted in its place, and the run
\* has ended normally
C19_Witness ==
    /\ run.pc = "done"
    /\ \E j \in 1..Len(run.subLinks) :
         /\ run.subLinks[j].native = "threw"
         /\ run.subLinks[j].via = "comment"

\* The body of the issue as the run fetched it last (listing or creation).
LastFetchedBody(number) ==
    LET j == CHOOSE j \in 1..Len(run.cache) : run.cache[j].number = number
    IN  run.cache[j].body

\* C20: in the second loop an update call is issued for a task's issue if
\* and only if the body rendered for the task differs from the body of that
\* issue as last fetched.
C20_UpdateIffBodyDiffers ==
    \A j \in 1..Len(run.pass2) :
        run.pass2[j].called <=>
            run.pass2[j].rendered # LastFetchedBody(run.pass2[j].number)

\* a second run in which one issue is left alone and the other is updated,
\* its dependency having been closed in between
C20_Witness ==
    /\ run.n = 2
    /\ Len(run.pass2) = 2
    /\ ~run.pass2[1].called
    /\ run.pass2[2].called
    /\ run.pass2[1].number # run.pass2[2].number

ComplexityLabels == {"complexity:high", "complexity:medium", "complexity:low"}

\* C24: a task the complexity report gives a score c in 0..10 gets exactly
\* one complexity label when its issue is created: complexity:high when
\* c >= 7, complexity:medium when 4 <= c < 7, complexity:low otherwise.
C24_OneComplexityLabel ==
    (/\ action.op = "createOrGetIssue"
     /\ action.created
     /\ tasks[1].id \in DOMAIN action.complexityMap)
    => LET c == action.complexityMap[tasks[1].id]
       IN  action.labels \cap ComplexityLabels =
              { IF c >= 7 THEN "complexity:high"
                ELSE IF c >= 4 THEN "complexity:medium"
                ELSE "complexity:low" }

(***************************************************************************)
(* Claims about the resolver (stated over SpecResolver).  While `last`    *)
(* holds an activation, `remote` is the tracker that activation left: the  *)
(* issue states and bodies are those it ran on.                            *)
(***************************************************************************)
ListedDeps(n) == SeqToSet(remote[n].body.dependencies)

OpenDependency(n) == \E d \in ListedDeps(n) : remote[d].state = "open"

\* C3: provided every fetch it makes succeeds, isIssueBlocked returns true if
\* and only if some dependency listed in the issue's front-matter is an open
\* issue; an issue that lists no dependency is never reported blocked.
C3_BlockedIffOpenDependency ==
    last.op = "isIssueBlocked" =>
        /\ ~last.failed => (last.ret <=> OpenDependency(last.n))
        /\ ListedDeps(last.n) = {} => ~last.ret

C3_Witness ==
    /\ last.op = "isIssueBlocked"
    /\ ~last.failed
    /\ last.ret
    /\ Len(remote[last.n].body.dependencies) = 2
    /\ remote[remote[last.n].body.dependencies[1]].state = "closed"

\* C6: when a fetch fails while the blocked state of an issue is computed
\* (by a direct call or within updateBlockedStatus), the computed state is
\* "not blocked": isIssueBlocked returns false instead of throwing.
C6_FetchFailureMeansNotBlocked ==
    /\ (last.op = "isIssueBlocked" /\ last.failed) => last.ret = FALSE
    /\ \A i \in 1..Len(last.updates) :
         last.updates[i].failed => last.updates[i].isBlocked = FALSE

C6_Witness ==
    /\ last.op = "isIssueBlocked"
    /\ last.failed
    /\ ~last.ret
    /\ Len(last.fetched) >= 2
    /\ remote[last.fetched[Len(last.fetched)]].state = "open"

\* C32: the blocked label is never removed from an issue while one of the
\* issues its front-matter lists as dependencies is open, not even when a
\* fetch fails while its blocked state is computed or its label updated.
C32_LabelStaysWhileDependencyOpen ==
    \A i \in 1..Len(last.updates) :
        (last.updates[i].write = "removeLabel" /\ last.updates[i].writeOk)
            => ~OpenDependency(last.updates[i].n)

\* The index in the dependency list of n of its first open dependency, 0
\* when none is open.
FirstOpen(n) ==
    LET deps == remote[n].body.dependencies
        open == { j \in 1..Len(deps) :
                    deps[j] \in DOMAIN remote /\ remote[deps[j]].state = "open" }
    IN  IF open = {} THEN 0 ELSE CHOOSE j \in open : \A l \in open : j <= l

\* C28: when the first open dependency of the issue is the k-th of its list
\* and no fetch throws, isIssueBlocked fetches the first k dependencies, in
\* order, and no later one.
C28_StopsAtFirstOpenDependency ==
    (last.op = "isIssueBlocked" /\ ~last.failed /\ FirstOpen(last.n) > 0) =>
        last.fetched = <<last.n>> \o
            SubSeq(remote[last.n].body.dependencies, 1, FirstOpen(last.n))

\* the first dependency is open and a second one is listed after it
C28_Witness ==
    /\ last.op = "isIssueBlocked"
    /\ ~last.failed
    /\ Len(remote[last.n].body.dependencies) = 2
    /\ FirstOpen(last.n) = 1
    /\ Len(last.fetched) = 2

\* C5: updateBlockedStatus, having read the issue's labels, issues addLabels
\* exactly when the issue is computed blocked and does not carry the label,
\* removeLabel exactly when it is computed unblocked and carries the label,
\* and no label write in the two other cases; when the labels cannot be read
\* it writes nothing.
C5_LabelWriteTable ==
    last.op = "updateBlockedStatus" =>
        LET u == last.updates[1]
        IN  /\ u.labelsFetched =>
                 /\ u.write = "addLabels" <=> (u.isBlocked /\ ~u.hadLabel)
                 /\ u.write = "removeLabel" <=> (~u.isBlocked /\ u.hadLabel)
                 /\ u.write = "none" <=> (u.isBlocked <=> u.hadLabel)
            /\ ~u.labelsFetched => u.write = "none"
            /\ u.write = "addLabels" /\ u.writeOk => "blocked" \in remote[u.n].labels
            /\ u.write = "removeLabel" /\ u.writeOk => "blocked" \notin remote[u.n].labels
            /\ u.write = "none" => ("blocked" \in remote[u.n].labels <=> u.hadLabel)

C5_Witness ==
    /\ last.op = "updateBlockedStatus"
    /\ last.updates[1].labelsFetched
    /\ last.updates[1].isBlocked
    /\ last.updates[1].hadLabel
    /\ last.updates[1].write = "none"

\* C7: when the closure of issue c is handled and the issues are listed,
\* updateBlockedStatus is run once for every issue whose dependency list
\* contains c and for no other issue (issues that depend on c only through
\* another issue are not touched); when the listing fails nothing is re-run.
Dependents(c) == { n \in DOMAIN remote : c \in ListedDeps(n) }

C7_ClosureReresolvesDependentsOnly ==
    last.op = "handleIssueClosure" =>
        /\ last.listed =>
             /\ { last.updates[i].n : i \in 1..Len(last.updates) } = Dependents(last.n)
             /\ Len(last.updates) = Cardinality(Dependents(last.n))
        /\ ~last.listed => last.updates = << >>

\* closing 1 re-resolves 2 (which lists 1) and not 3 (which lists only 2)
C7_Witness ==
    /\ last.op = "handleIssueClosure"
    /\ last.n = 1
    /\ last.listed
    /\ Len(last.updates) = 1
    /\ last.updates[1].n = 2
    /\ ListedDeps(3) = {2}
    /\ ListedDeps(2) = {1}

\* C8: in the chain 2 -> 1, 3 -> 2 (issue 2 lists 1, issue 3 lists 2): once
\* issue 1 is closed, re-resolving issue 2 with its remote calls succeeding
\* computes "not blocked" and leaves issue 2 without the blocked label; and
\* as long as issue 2 is open, every computation of issue 3's state whose
\* fetches succeed gives "blocked", and re-resolving 3 never removes its label.
Chain ==
    /\ remote[2].body.dependencies = <<1>>
    /\ remote[3].body.dependencies = <<2>>

C8_ChainUnblocksOneHop ==
    Chain =>
        /\ \A i \in 1..Len(last.updates) :
             LET u == last.updates[i]
             IN  /\ (u.n = 2 /\ remote[1].state = "closed" /\ ~u.failed) =>
                       /\ ~u.isBlocked
                       /\ (u.labelsFetched /\ (u.write = "none" \/ u.writeOk)) =>
                              "blocked" \notin remote[2].labels
                 /\ (u.n = 3 /\ remote[2].state = "open" /\ ~u.failed) =>
                       /\ u.isBlocked
                       /\ u.write # "removeLabel"
                       /\ u.hadLabel => "blocked" \in remote[3].labels
        /\ (last.op = "isIssueBlocked" /\ ~last.failed) =>
             /\ (last.n = 2 /\ remote[1].state = "closed") => ~last.ret
             /\ (last.n = 3 /\ remote[2].state = "open") => last.ret

\* issue 1 closed, its closure handled: 2 lost the label, 3 keeps it
C8_Witness ==
    /\ Chain
    /\ last.op = "handleIssueClosure"
    /\ last.n = 1
    /\ remote[1].state = "closed"
    /\ remote[2].state = "open"
    /\ Len(last.updates) = 1
    /\ last.updates[1].write = "removeLabel"
    /\ last.updates[1].writeOk
    /\ "blocked" \notin remote[2].labels
    /\ "blocked" \in remote[3].labels

(***************************************************************************)
(* Claims about the resilience layer (stated over SpecRetry).             *)
(***************************************************************************)
\* The validation and authentication errors of the error universe, named by
\* what they are (HTTP 422; HTTP 401; HTTP 403 without a rate-limit message).
ValidationOrAuthErrors ==
    { t \in ErrorTemplates :
        \/ t.status = 422
        \/ t.status = 401
        \/ t.status = 403 /\ t.message = "Forbidden" }

\* C9: when an attempt of the operation fails with a validation or
\* authentication error, executeWithRetry stops there: that attempt is the
\* last one, no sleep follows it, and that error is thrown.  When it is the
\* first attempt that fails so, the operation was invoked exactly once and
\* executeWithRetry never slept.
C9_NonRetryableFailsAtOnce ==
    \A k \in 1..Len(retry.raised) :
        retry.raised[k].tpl \in ValidationOrAuthErrors =>
            /\ retry.pc = "thrown"
            /\ k = Len(retry.raised)
            /\ retry.calls = k
            /\ Len(retry.sleeps) = k - 1
            /\ retry.thrown = retry.raised[k]
            /\ (k = 1 => retry.calls = 1 /\ retry.sleeps = << >>)

C9_Witness ==
    /\ retry.pc = "thrown"
    /\ retry.maxRetries >= 1
    /\ retry.calls = 1
    /\ retry.raised[1].tpl \in ValidationOrAuthErrors

\* C10: when executeWithRetry gives up, the error it throws is the very error
\* object raised by the last attempt of the operation.
C10_ThrowsLastErrorUnmodified ==
    retry.pc = "thrown" =>
        /\ Len(retry.raised) = retry.calls
        /\ retry.calls >= 1
        /\ retry.thrown = retry.raised[retry.calls]

C10_Witness ==
    /\ retry.pc = "thrown"
    /\ retry.calls >= 2
    /\ retry.raised[1].tpl # retry.raised[retry.calls].tpl
    /\ retry.thrown = retry.raised[retry.calls]

\* The maximum of retries the error-category table gives to a category.
TableMaxRetries(type) ==
    CASE type = "rate_limit" -> 10
      [] type = "network" -> 5
      [] type = "unknown" -> 3
      [] OTHER -> 0

\* The category the table gives to an error: an invalid-artifact error is
\* invalid_artifact, any other error has the category computed for it.
TableCategory(tpl) ==
    IF MsgIncludes(tpl.message, "Invalid artifact")
    THEN "invalid_artifact"
    ELSE categorizeError(tpl).type

\* The retries made so far after an error of the category.
RetriesOf(type) ==
    { k \in 1..Len(retry.sleeps) : TableCategory(retry.raised[k].tpl) = type }

\* C11: within one execution of executeWithRetry, the errors of a category
\* are retried at most as many times as the category's maximum: 10 for
\* rate_limit, 5 for network, 3 for unknown, never for validation,
\* authentication and invalid_artifact.
C11_RetriesWithinCategoryMaximum ==
    \A type \in {"rate_limit", "network", "unknown", "validation",
                 "authentication", "invalid_artifact"} :
        Cardinality(RetriesOf(type)) <= TableMaxRetries(type)

\* What a claim says of the category of an error: type, retryable, maximum.
Classified(tpl, type, retryable, maxRetries) ==
    LET c == categorizeError(tpl)
    IN  c.type = type /\ c.retryable = retryable /\ c.maxRetries = maxRetries

RateLimitMessage(tpl) ==
    tpl.message \in {"API rate limit exceeded",
                     "You have exceeded a secondary rate limit"}

ConnectionCode(tpl) == tpl.code \in {"ECONNRESET", "ENOTFOUND", "ETIMEDOUT"}

\* The four named cases of the taxonomy.
NamedCases(tpl) ==
    /\ (tpl.status = 403 /\ RateLimitMessage(tpl)) => Classified(tpl, "rate_limit", TRUE, 10)
    /\ tpl.status = 422 => Classified(tpl, "validation", FALSE, 0)
    /\ ConnectionCode(tpl) => Classified(tpl, "network", TRUE, 5)
    /\ tpl.status = 401 => Classified(tpl, "authentication", FALSE, 0)

IsNamedCase(tpl) ==
    \/ tpl.status = 403 /\ RateLimitMessage(tpl)
    \/ tpl.status = 422
    \/ ConnectionCode(tpl)
    \/ tpl.status = 401

C13_InvalidArtifactClassified ==
    \A k \in 1..Len(retry.raised) :
        MsgIncludes(retry.raised[k].tpl.message, "Invalid artifact") =>
            Classified(retry.raised[k].tpl, "invalid_artifact", FALSE, 0)

\* The failed attempts so far all raised retryable errors.
AllRetryable ==
    \A k \in 1..Len(retry.raised) : categorizeError(retry.raised[k].tpl).retryable

\* C21: when the first k attempts fail with retryable errors, k <= maxRetries,
\* attempt k+1 is made; when it succeeds, executeWithRetry returns the result
\* of that attempt, the operation having been invoked exactly k+1 times.
C21_SucceedsAfterRetries ==
    /\ (AllRetryable /\ Len(retry.raised) <= retry.maxRetries) =>
           retry.pc # "thrown"
    /\ retry.pc = "returned" =>
           /\ AllRetryable
           /\ Len(retry.raised) <= retry.maxRetries
           /\ retry.calls = Len(retry.raised) + 1
           /\ retry.result = Len(retry.raised)

\* fails twice, then succeeds: 3 invocations, with maxRetries = 2
C21_Witness ==
    /\ retry.pc = "returned"
    /\ retry.maxRetries = 2
    /\ Len(retry.raised) = 2
    /\ retry.calls = 3

\* A rate_limit error that carries neither a retry-after header nor a reset
\* time: its delay is the exponential backoff.
BacksOff(tpl) ==
    /\ categorizeError(tpl).type = "rate_limit"
    /\ tpl.retryAfter = -1
    /\ tpl.resetIn = -1

\* C40: the delay slept after a rate_limit error is the retry-after value,
\* in seconds, when the error has one; otherwise the time until the reset,
\* at least 1 s; otherwise a backoff of at most 5 minutes that is longer
\* than the backoff of every earlier retry of the call, unless it has
\* reached the 5 minutes.
C40_RateLimitDelay ==
    \A k \in 1..Len(retry.sleeps) :
        LET tpl == retry.raised[k].tpl
        IN  categorizeError(tpl).type = "rate_limit" =>
              /\ tpl.retryAfter # -1 => retry.sleeps[k] = tpl.retryAfter * 1000
              /\ (tpl.retryAfter = -1 /\ tpl.resetIn # -1) =>
                    /\ retry.sleeps[k] >= 1000
                    /\ retry.sleeps[k] >= tpl.resetIn
                    /\ retry.sleeps[k] \in {1000, tpl.resetIn}
              /\ BacksOff(tpl) =>
                    /\ retry.sleeps[k] <= 300000
                    /\ \A j \in 1..(k - 1) :
                          BacksOff(retry.raised[j].tpl) =>
                             \/ retry.sleeps[j] < retry.sleeps[k]
                             \/ retry.sleeps[k] = 300000

\* C37: executeWithRetry always terminates, by returning or by throwing; it
\* invokes the operation at most maxRetries + 1 times; and it sleeps only
\* between two attempts, never after the failed attempt it gives up on.
C37_RetryTerminates ==
    /\ (retry.pc = "loop") ~> (retry.pc \in {"returned", "thrown"})
    /\ [](retry.calls <= retry.maxRetries + 1)
    /\ [](Len(retry.sleeps) = retry.attempt)
    /\ [](retry.pc = "thrown" => Len(retry.sleeps) = Len(retry.raised) - 1)

\* every attempt failed: maxRetries + 1 invocations and maxRetries sleeps
C37_Witness ==
    /\ retry.pc = "thrown"
    /\ retry.maxRetries = 2
    /\ retry.calls = 3
    /\ Len(retry.sleeps) = 2

(***************************************************************************)
(* Claims about the artifact download (stated over SpecDownload).          *)
(***************************************************************************)
\* The attempts whose downloaded text has not the expected SHA-256.
MismatchedAttempts ==
    { k \in 1..Len(artifact.responses) :
        /\ artifact.responses[k].fetch = "ok"
        /\ calculateSHA256(artifact.responses[k].data) # artifact.options.expectedChecksum }

\* Such an attempt raised the checksum error, was the last attempt, and
\* downloadFromArtifactUrl threw that error and returned no graph.
MismatchIsFatal ==
    \A k \in MismatchedAttempts :
        /\ k <= Len(retry.raised)
        /\ retry.raised[k].tpl.message = "Checksum validation failed"
        /\ k = Len(artifact.responses)
        /\ retry.pc = "thrown"
        /\ retry.thrown = retry.raised[k]
        /\ artifact.returned = NoPayload

\* C14 as stated: when an expected checksum is supplied, a download whose
\* SHA-256 differs from it raises an error and no parsed graph is returned.
C14_SuppliedChecksumEnforced ==
    (artifact.op = "download" /\ artifact.options.expectedChecksum # None)
        => MismatchIsFatal

\* C14 amended: when checksum validation is on (validateChecksum, true by
\* default) and a non-empty expected checksum is supplied, a download whose
\* SHA-256 differs from it raises the checksum error at once (no retry) and
\* no parsed graph is returned; a returned graph has the expected SHA-256.
C14_ChecksumEnforced ==
    (/\ artifact.op = "download"
     /\ artifact.options.validateChecksum
     /\ artifact.options.expectedChecksum \in Checksums)
        => /\ MismatchIsFatal
           /\ retry.pc = "returned" =>
                calculateSHA256(artifact.returned) = artifact.options.expectedChecksum

\* a retried download whose second attempt got a well-formed graph with the
\* wrong digest
C14_Witness ==
    /\ artifact.op = "download"
    /\ artifact.options.validateChecksum
    /\ artifact.options.expectedChecksum = "h1"
    /\ Len(artifact.responses) = 2
    /\ artifact.responses[1].fetch = "rejected"
    /\ artifact.responses[2] = [fetch |-> "ok", data |-> [sha |-> "h2", kind |-> "graph"]]
    /\ retry.pc = "thrown"
    /\ artifact.returned = NoPayload

(***************************************************************************)
(* Claims about the dependency watcher (stated over SpecWatch).            *)
(***************************************************************************)
\* The issues the scan or the closure handler ran to the end.
Processed == DOMAIN scan.finished \cup scan.closure.handled

BothFinished == scan.pc \in {"done", "failed"} /\ scan.closure.pc = "done"

\* C15: when the scan and the handling of a closure, run concurrently on a
\* repository whose issues keep their state, have both finished, every
\* issue they processed without a failing remote call carries the blocked
\* label if and only if one of its dependencies is open.
C15_ConcurrentRunsConverge ==
    BothFinished =>
        \A n \in Processed \ scan.failedOn :
            "blocked" \in remote[n].labels <=> OpenDependency(n)

\* issue 1 is closed; issues 2 and 3 were processed by both, the label of 2
\* (seen by the scan's listing) has been removed and 3 has got the label
C15_Witness ==
    /\ BothFinished
    /\ scan.failures = 0
    /\ scan.closure.c = 1
    /\ ListedDeps(2) = {1}
    /\ ListedDeps(3) = {1, 2}
    /\ scan.closure.handled = {2, 3}
    /\ {2, 3} \subseteq DOMAIN scan.finished
    /\ \E j \in 1..Len(scan.listing) :
          scan.listing[j].n = 2 /\ scan.listing[j].hasBlockedLabel
    /\ \E j \in 1..Len(scan.listing) :
          scan.listing[j].n = 3 /\ ~scan.listing[j].hasBlockedLabel
    /\ "blocked" \notin remote[2].labels
    /\ "blocked" \in remote[3].labels

OpenIssues == { n \in DOMAIN remote : remote[n].state = "open" }

\* C16: in a scan, whatever remote call fails while an item is processed,
\* the scan goes on: only a failing listing ends it early, no issue is
\* processed twice, and when the scan ends every open issue has been
\* processed exactly once.
C16_ItemFailuresAreContained ==
    /\ scan.pc = "failed" => (scan.listing = << >> /\ scan.finished = << >>)
    /\ \A n \in DOMAIN scan.finished : scan.finished[n] = 1 /\ n \in OpenIssues
    /\ scan.pc = "done" => DOMAIN scan.finished = OpenIssues

\* a scan of two batches that ended although a call failed on issue 3 in
\* the first batch
C16_Witness ==
    /\ scan.pc = "done"
    /\ scan.failedOn = {3}
    /\ Len(scan.batches) = 2
    /\ 3 \in scan.batches[1]
    /\ DOMAIN scan.finished = OpenIssues
    /\ Cardinality(OpenIssues) = 11

\* C39: a scan has at most 10 items in progress at a time, and a batch
\* after the first starts only when every item of the batch before has
\* finished and the 100 ms that follow that batch have elapsed.
C39_BatchesOfTenWithDelay ==
    /\ Cardinality(DOMAIN scan.items) <= 10
    /\ \A b \in 1..Len(scan.batches) :
          /\ DOMAIN scan.items \subseteq scan.batches[Len(scan.batches)]
          /\ b > 1 => scan.batches[b - 1] \subseteq DOMAIN scan.finished
    /\ Len(scan.batches) > 0 =>
          scan.delays = [b \in 1..(Len(scan.batches) - 1) |-> 100]

\* eleven open issues: the second batch has started, 100 ms after the ten
\* items of the first had finished
C39_Witness ==
    /\ scan.pc = "batch"
    /\ Len(scan.batches) = 2
    /\ Cardinality(scan.batches[1]) = 10
    /\ scan.delays = <<100>>
    /\ \E n \in DOMAIN scan.items : scan.items[n].pc # "done"

(***************************************************************************)
(* Claims about the statistics (stated over SpecDepth, SpecDepthFair).     *)
(***************************************************************************)
\* The ids a step of the dependency relation leads to from the ids S.
DependenciesOfAll(S) ==
    UNION { SeqToSet(dependenciesOf(tasks, a)) : a \in S }

RECURSIVE ReachedIn(_, _)
ReachedIn(S, n) ==
    IF n = 0 THEN S ELSE ReachedIn(S \cup DependenciesOfAll(S), n - 1)

\* Some task is among its own direct or indirect dependencies.
Cyclic ==
    \E k \in 1..Len(tasks) :
        tasks[k].id \in ReachedIn(DependenciesOfAll({tasks[k].id}),
                                  Cardinality(DepthIds))

\* The dependency chains: a task of the graph, one of its dependencies, one
\* of the dependencies of that one, and so on.
Chains ==
    { c \in UNION { [1..l -> DepthIds] : l \in 1..Cardinality(DepthIds) } :
        /\ \E k \in 1..Len(tasks) : tasks[k].id = c[1]
        /\ \A l \in 1..(Len(c) - 1) :
              c[l + 1] \in SeqToSet(dependenciesOf(tasks, c[l])) }

LongestChain ==
    IF Chains = {} THEN 0 ELSE Maximum({ Len(c) : c \in Chains })

\* C22: calculateHierarchyDepth terminates on every task graph, with or
\* without dependency cycles, its recursion never exhausting the stack; on a
\* graph with a dependency cycle it returns 1.
C22_DepthTerminates ==
    /\ <>(action.op = "calculateHierarchyDepth" /\ action.pc = "done")
    /\ [](action.op = "calculateHierarchyDepth" => action.pc # "overflow")
    /\ []((action.op = "calculateHierarchyDepth" /\ action.pc = "done" /\ Cyclic)
              => action.result = 1)

\* tasks 1 and 2 depending on each other: the result is 1
C22_Witness ==
    /\ Len(tasks) = 2
    /\ tasks[1].dependencies = <<2>>
    /\ tasks[2].dependencies = <<1>>
    /\ action.op = "calculateHierarchyDepth"
    /\ action.pc = "done"
    /\ action.result = 1

Neighbours(S) ==
    S \cup DependenciesOfAll(S)
      \cup { tasks[k].id : k \in { l \in 1..Len(tasks) :
                 SeqToSet(tasks[l].dependencies) \cap S # {} } }

RECURSIVE Component(_, _)
Component(S, n) == IF n = 0 THEN S ELSE Component(Neighbours(S), n - 1)

\* Some id of the component of a is among its own dependencies.
InCyclicComponent(a) ==
    \E b \in Component({a}, Cardinality(DepthIds)) :
        b \in ReachedIn(DependenciesOfAll({b}), Cardinality(DepthIds))

\* 1 for the tasks of a component with a cycle, the longest chain for the
\* tasks of the other components; 0 for the empty graph.
ComponentwiseDepth ==
    Maximum({0}
        \cup { 1 : k \in { l \in 1..Len(tasks) : InCyclicComponent(tasks[l].id) } }
        \cup { Len(c) : c \in { d \in Chains : ~InCyclicComponent(d[1]) } })

\* C38: a dependency cycle makes the depth 1 for its own component only:
\* the result is the greatest depth over the components, an acyclic one
\* counting with its longest chain and one with a cycle counting 1.
C38_CycleCollapsesItsComponentOnly ==
    (action.op = "calculateHierarchyDepth" /\ action.pc = "done")
        => action.result = ComponentwiseDepth

(***************************************************************************)
(* Claims about the content-hash ledger (stated over SpecLedger).          *)
(***************************************************************************)
\* C25: isIssueContentChanged(title, body) returns true and records the hash
\* of title+body when the ledger has no entry for the title; returns false
\* and leaves the ledger as it is when the stored hash is that hash; returns
\* true and overwrites the entry when the stored hash is another one.
C25_ContentChangeTable ==
    (action.op = "run" /\ action.call # NoCall) =>
        LET c == action.call
            h == generateContentHash(c.title \o c.body)
            recorded == [t \in DOMAIN c.before \cup {c.title} |->
                            IF t = c.title THEN h ELSE c.before[t]]
        IN  /\ c.title \notin DOMAIN c.before =>
                 (c.ret /\ action.issueContentHashes = recorded)
            /\ (c.title \in DOMAIN c.before /\ c.before[c.title] = h) =>
                 (~c.ret /\ action.issueContentHashes = c.before)
            /\ (c.title \in DOMAIN c.before /\ c.before[c.title] # h) =>
                 (c.ret /\ action.issueContentHashes = recorded)

\* a call that found another hash stored for the title than the content's
C25_Witness ==
    /\ action.op = "run"
    /\ action.call # NoCall
    /\ action.call.title \in DOMAIN action.call.before
    /\ action.call.before[action.call.title] =
          generateContentHash(action.call.title \o "x")
    /\ action.call.body = "y"
    /\ action.call.ret

\* C26: in every run the ledger is read from the persisted state before any
\* other step, and it is written back to the persisted state before the run
\* ends.
C26_LedgerReadFirstWrittenLast ==
    /\ (action.op = "run" /\ action.steps # << >>) =>
           action.steps[1] = "loadExistingContentHashes"
    /\ (action.op = "run" /\ action.pc = "ended") =>
           /\ \E k \in 1..Len(action.steps) : action.steps[k] = "saveContentHashes"
           /\ action.hashFile = HashFile("map", action.issueContentHashes)

(***************************************************************************)
(* Claims about validateTaskGraphStructure (stated over SpecValidate).     *)
(***************************************************************************)
\* The property is there and is not the empty string.
NonEmpty(v) == v.type # "undefined" /\ ~(v.type = "string" /\ v.s = "")

\* C27: validateTaskGraphStructure rejects a graph if and only if master or
\* metadata is missing, tasks is not an array, or some task lacks a
\* non-empty id or a non-empty title; an empty tasks array is accepted.
C27_RejectsExactlyMalformedGraphs ==
    (action.op = "validateTaskGraphStructure" /\ action.outcome # "none") =>
        LET g == action.taskGraph
        IN  action.outcome # "passed" <=>
               \/ ~g.master
               \/ ~g.metadata
               \/ ~g.tasks.isArray
               \/ \E k \in 1..Len(g.tasks.items) :
                     ~NonEmpty(g.tasks.items[k].id)
                       \/ ~NonEmpty(g.tasks.items[k].title)

(***************************************************************************)
(* Claims about the artifact recovery (stated over SpecRestore).           *)
(***************************************************************************)
\* C29: restoring from an artifact that fails validation fails at once: the
\* body is attempted exactly once, executeWithRetry does not sleep, and the
\* 'Invalid artifact' error is thrown.
C29_InvalidArtifactFailsAtOnce ==
    (action.op = "restoreFromArtifact" /\ retry.raised # << >>) =>
        /\ retry.pc = "thrown"
        /\ retry.calls = 1
        /\ retry.sleeps = << >>
        /\ MsgIncludes(retry.thrown.tpl.message, "Invalid artifact")

(***************************************************************************)
(* Claims about the reverse edges (stated over SpecRequiredBy).            *)
(***************************************************************************)
\* C30: for all tasks t and u of the graph, u is in the requiredBy list of t
\* if and only if the id of t appears in the dependency list of u.
C30_RequiredByIsReverseEdge ==
    action.op = "requiredBy" =>
        \A t \in 1..Len(action.requiredBy) : \A u \in 1..Len(tasks) :
            tasks[u] \in SeqToSet(action.requiredBy[t])
              <=> tasks[t].id \in SeqToSet(tasks[u].dependencies)

(***************************************************************************)
(* Claims about the /breakdown command (stated over SpecBreakdown).        *)
(***************************************************************************)
\* The issue was broken down before: its front-matter says so, or the
\* tracker knows sub-issues of it.
AlreadyBrokenDown(rem) ==
    rem.parent.metadata.breakdown_performed \/ rem.subIssues # {}

\* C31: executeBreakdown on an issue that was already broken down (its
\* breakdown metadata is present, or it has sub-issues) files no sub-issue,
\* leaves the parent as it is, open or closed, and returns success with an
\* empty list of created sub-issues; this is stated for the commands none
\* of whose remote calls fails.
C31_BreakdownIsIdempotent ==
    (/\ action.op = "breakdown" /\ action.n > 0
     /\ AlreadyBrokenDown(action.before)
     /\ action.failed = {})
        => /\ remote = action.before
           /\ action.result = BreakdownResult(TRUE, << >>)

(***************************************************************************)
(* Claims about concurrent runs of the sync engine (SpecTwoRuns).          *)
(***************************************************************************)
\* The issues on the tracker filed for a task: its title and the marker.
IssuesOfTask(task) ==
    { n \in DOMAIN remote : remote[n].title = task.title /\ remote[n].body.marker }

\* C34: two runs of the sync engine at work on one repository at the same
\* time never leave two issues for one task (same title, with the marker).
C34_NoDuplicateUnderConcurrency ==
    \A t \in 1..Len(tasks) : Cardinality(IssuesOfTask(tasks[t])) <= 1

====
